---- MODULE Spec2Model ----
(***************************************************************************)
(* A model of the CRM backend (Express routes, Joi validation, JWT         *)
(* authentication, Sequelize models).  The persistent state is the five    *)
(* tables; every client holds at most one request in flight, and a request *)
(* advances one database round trip (one await of the handler) at a time.  *)
(* The exchange that completed last is kept in `last`, so that statements  *)
(* about responses are state predicates.                                   *)
(***************************************************************************)
EXTENDS Integers, Sequences, FiniteSets, TLC

VARIABLES
    dialect,        \* the database the server is connected to
    users,          \* table users: id -> [email, password, role]
    nextUserId,     \* the id the next inserted user row gets
    deleted,        \* history: ids of the user rows removed so far
    tokens,         \* client -> the bearer token it was given last
    now,            \* the clock, in hours
    customers,      \* table customers: id -> row
    leads,          \* table leads: id -> row
    tasks,          \* table tasks: id -> row
    interactions,   \* table interactions: id -> row
    nextLeadId,     \* the id the next inserted lead row gets
    nextTaskId,     \* the id the next inserted task row gets
    nextCustomerId, \* the id the next inserted customer row gets
    nextInteractionId, \* the id the next inserted interaction row gets
    walk,           \* history: the pages of a list a client has read in a row
    ended,          \* history: the tokens a client saw logged out or refreshed
    proc,           \* client -> its request in flight
    last            \* the exchange completed last

db == <<users, nextUserId, customers, leads, tasks, interactions, nextLeadId,
        nextTaskId, nextCustomerId, nextInteractionId>>
vars == <<dialect, users, nextUserId, deleted, tokens, now, customers, leads, tasks,
          interactions, nextLeadId, nextTaskId, nextCustomerId, nextInteractionId,
          walk, ended, proc, last>>

----------------------------------------------------------------------------
(* Bounds of the model *)

MaxUserId == 3
MaxLeadId == 3
MaxTaskId == 2
MaxCustomerId == 2
MaxInteractionId == 2
MaxStatLeads == 160
MaxClock == 24
ClockStep == 24
SessionStep == 12

(* jwt.sign(..., { expiresIn: '24h' }) *)
TokenTTL == 24

Procs == {"c1", "c2"}

(* NULL in a foreign key column *)
NullId == 0

----------------------------------------------------------------------------
(* Request bodies are records; an absent key is absent from the domain.   *)

Has(b, k) == k \in DOMAIN b

NoBody == [nobody |-> TRUE]

WellFormedEmails == {"admin@crm.com", "user@crm.com", "new@crm.com"}

Roles == {"admin", "user"}
Stages == {"lead", "qualified", "proposal", "closed"}
Statuses == {"pending", "in-progress", "completed"}
Priorities == {"low", "medium", "high"}
InteractionTypes == {"call", "email", "meeting", "note"}

(* The messages of the first failure of one key, in Joi's order of rules:
   required, type/format, min, max, valid. *)
RequiredString(b, k, min, max, msgReq, msgMin, msgMax) ==
    IF ~Has(b, k) THEN <<msgReq>>
    ELSE IF Len(b[k]) < min THEN <<msgMin>>
    ELSE IF Len(b[k]) > max THEN <<msgMax>>
    ELSE <<>>

RequiredEmail(b) ==
    IF ~Has(b, "email") THEN <<"Email is required">>
    ELSE IF b.email \notin WellFormedEmails
         THEN <<"Please provide a valid email address">>
    ELSE <<>>

RequiredPassword(b) ==
    IF ~Has(b, "password") THEN <<"Password is required">>
    ELSE IF Len(b.password) < 6
         THEN <<"Password must be at least 6 characters long">>
    ELSE <<>>

(* an optional key whose value is not compared with the list *)
OptionalEnumUnchecked(b, k, allowed, msg) == <<>>

OptionalEnum(b, k, allowed, msg) ==
    IF Has(b, k) /\ b[k] \notin allowed THEN <<msg>> ELSE <<>>

RequiredEnum(b, k, allowed, msgReq, msg) ==
    IF ~Has(b, k) THEN <<msgReq>>
    ELSE IF b[k] \notin allowed THEN <<msg>>
    ELSE <<>>

(* Joi.object() rejects a key the schema does not declare, after the
   declared keys have been validated. *)
UnknownKeys(b, known) ==
    IF DOMAIN b \subseteq known THEN <<>>
    ELSE <<(CHOOSE k \in DOMAIN b \ known : TRUE) \o " is not allowed">>

loginSchema(b) ==
    RequiredEmail(b) \o RequiredPassword(b)
    \o UnknownKeys(b, {"email", "password"})

registerSchema(b) ==
    RequiredString(b, "name", 2, 255, "Name is required",
                   "Name must be at least 2 characters long",
                   "Name cannot exceed 255 characters")
    \o RequiredEmail(b) \o RequiredPassword(b)
    \o OptionalEnum(b, "role", Roles, "role must be one of [admin, user]")
    \o UnknownKeys(b, {"name", "email", "password", "role"})

OptionalMaxString(b, k, max, msg) ==
    IF Has(b, k) /\ Len(b[k]) > max THEN <<msg>> ELSE <<>>

(* Joi.number().min(0) *)
OptionalMinNumber(b, k, min, msg) ==
    IF Has(b, k) /\ b[k] < min THEN <<msg>> ELSE <<>>

OptionalEmail(b) ==
    IF Has(b, "email") /\ b.email # "" /\ b.email \notin WellFormedEmails
    THEN <<"Please provide a valid email address">> ELSE <<>>

(* Joi.date(): a day number stands for a parseable date, a negative number
   for a value that is no date. *)
OptionalDate(b, k, msg) ==
    IF Has(b, k) /\ b[k] < 0 THEN <<msg>> ELSE <<>>

TitleRule(b) ==
    RequiredString(b, "title", 2, 255, "Title is required",
                   "Title must be at least 2 characters long",
                   "Title cannot exceed 255 characters")

customerSchema(b) ==
    RequiredString(b, "name", 2, 255, "Name is required",
                   "Name must be at least 2 characters long",
                   "Name cannot exceed 255 characters")
    \o OptionalEmail(b)
    \o OptionalMaxString(b, "phone", 50,
          "phone length must be less than or equal to 50 characters long")
    \o OptionalMaxString(b, "company", 255,
          "company length must be less than or equal to 255 characters long")
    \o (IF Has(b, "tags") /\ \E i \in 1 .. Len(b.tags) : b.tags[i] = <<>>
        THEN <<"tags item is not allowed to be empty">> ELSE <<>>)
    \o OptionalMaxString(b, "notes", 1000,
          "notes length must be less than or equal to 1000 characters long")
    \o UnknownKeys(b, {"name", "email", "phone", "company", "tags", "notes"})

leadSchema(b) ==
    TitleRule(b)
    \o OptionalMaxString(b, "description", 2000,
          "description length must be less than or equal to 2000 characters long")
    \o OptionalEnum(b, "stage", Stages,
          "stage must be one of [lead, qualified, proposal, closed]")
    \o OptionalMinNumber(b, "value", 0, "value must be greater than or equal to 0")
    \o UnknownKeys(b, {"title", "description", "stage", "value", "customerId",
                       "assignedTo"})

taskSchema(b) ==
    TitleRule(b)
    \o OptionalMaxString(b, "description", 1000,
          "description length must be less than or equal to 1000 characters long")
    \o OptionalEnum(b, "status", Statuses,
          "status must be one of [pending, in-progress, completed]")
    \o OptionalEnum(b, "priority", Priorities,
          "priority must be one of [low, medium, high]")
    \o OptionalDate(b, "dueDate", "dueDate must be a valid date")
    \o UnknownKeys(b, {"title", "description", "status", "priority", "dueDate",
                       "assignedTo", "customerId"})

interactionSchema(b) ==
    (IF Has(b, "customerId") THEN <<>> ELSE <<"Customer is required">>)
    \o RequiredEnum(b, "type", InteractionTypes, "Interaction type is required",
          "type must be one of [call, email, meeting, note]")
    \o OptionalMaxString(b, "notes", 2000,
          "notes length must be less than or equal to 2000 characters long")
    \o OptionalDate(b, "date", "date must be a valid date")
    \o UnknownKeys(b, {"customerId", "type", "notes", "date"})

updateLeadStageSchema(b) ==
    RequiredEnum(b, "stage", Stages, "Stage is required",
          "stage must be one of [lead, qualified, proposal, closed]")
    \o UnknownKeys(b, {"stage"})

updateTaskStatusSchema(b) ==
    RequiredEnum(b, "status", Statuses, "Status is required",
          "status must be one of [pending, in-progress, completed]")
    \o UnknownKeys(b, {"status"})

----------------------------------------------------------------------------
(* The routes of server.js and of the routers it mounts *)

PublicRoutes ==
    {"POST /api/auth/register", "POST /api/auth/login", "GET /api/health",
     "GET /api"}

AuthRoutes ==
    {"GET /api/auth/me", "POST /api/auth/logout", "POST /api/auth/refresh"}

UserRoutes ==
    {"GET /api/users", "GET /api/users/:id", "PUT /api/users/:id",
     "DELETE /api/users/:id"}

ReportAdminRoutes ==
    {"GET /api/reports/dashboard", "GET /api/reports/conversion"}

ReportUserRoutes == {"GET /api/reports/dashboard-stats"}

CustomerRoutes ==
    {"GET /api/customers", "POST /api/customers", "GET /api/customers/:id",
     "PUT /api/customers/:id", "DELETE /api/customers/:id",
     "GET /api/customers/:id/interactions",
     "POST /api/customers/:id/interactions"}

LeadRoutes ==
    {"GET /api/leads", "POST /api/leads", "GET /api/leads/:id",
     "PUT /api/leads/:id", "PUT /api/leads/:id/stage", "DELETE /api/leads/:id",
     "GET /api/leads/stats/overview"}

TaskRoutes ==
    {"GET /api/tasks", "POST /api/tasks", "GET /api/tasks/:id",
     "PUT /api/tasks/:id", "PUT /api/tasks/:id/status", "DELETE /api/tasks/:id"}

InteractionRoutes == {"GET /api/interactions", "POST /api/interactions"}

Routes ==
    PublicRoutes \cup AuthRoutes \cup UserRoutes \cup ReportAdminRoutes
    \cup ReportUserRoutes \cup CustomerRoutes \cup LeadRoutes \cup TaskRoutes
    \cup InteractionRoutes

(* router.use(authenticateToken), or authenticateToken in the route *)
RequiresToken(route) == route \notin PublicRoutes

(* router.use(requireAdmin) / requireAdmin in the route *)
AdminOnly(route) == route \in UserRoutes \cup ReportAdminRoutes

(* router.use(requireUser) / requireUser in the route *)
UserGated(route) ==
    route \in CustomerRoutes \cup LeadRoutes \cup TaskRoutes
              \cup InteractionRoutes \cup ReportUserRoutes

(* validate(<schema>) in the route: the failures of the body, in order *)
SchemaErrors(route, b) ==
    CASE route = "POST /api/auth/register" -> registerSchema(b)
      [] route = "POST /api/auth/login" -> loginSchema(b)
      [] route \in {"POST /api/customers", "PUT /api/customers/:id"}
            -> customerSchema(b)
      [] route \in {"POST /api/leads", "PUT /api/leads/:id"} -> leadSchema(b)
      [] route = "PUT /api/leads/:id/stage" -> updateLeadStageSchema(b)
      [] route \in {"POST /api/tasks", "PUT /api/tasks/:id"} -> taskSchema(b)
      [] route = "PUT /api/tasks/:id/status" -> updateTaskStatusSchema(b)
      [] route \in {"POST /api/interactions",
                    "POST /api/customers/:id/interactions"}
            -> interactionSchema(b)
      [] OTHER -> <<>>

----------------------------------------------------------------------------
(* Tokens, principals and the middleware *)

NoUser == [id |-> NullId, email |-> "", role |-> "none"]
NoToken == [userId |-> NullId, role |-> "none", exp |-> 0, sig |-> "none"]
NoData == [none |-> TRUE]

(* A token the server did not sign: a payload naming the first administrator
   under a signature that does not verify. *)
ForgedToken ==
    [userId |-> 1, role |-> "admin", exp |-> MaxClock + TokenTTL + 1,
     sig |-> "bad"]

(* req.user: the instance read at authentication time, with every column *)
Principal(id) == [id |-> id] @@ users[id]

generateToken(user) ==
    [userId |-> user.id, role |-> user.role, exp |-> now + TokenTTL,
     sig |-> "ok"]

(* jwt.verify with ignoreExpiration: the signature only *)
jwtVerifyIgnoreExpiration(token) ==
    IF token.sig # "ok" THEN "JsonWebTokenError" ELSE "ok"

(* jwt.verify: the signature, then the expiry *)
jwtVerify(token) ==
    IF token.sig # "ok" THEN "JsonWebTokenError"
    ELSE IF now >= token.exp THEN "TokenExpiredError"
    ELSE "ok"

(* The Authorization header is the list of its space-separated words. *)
TokenOf(header) == IF Len(header) >= 2 THEN header[2] ELSE NoToken

Pass(user) ==
    [ok |-> TRUE, status |-> 0, code |-> "", error |-> "", user |-> user]

Reject(status, code, error) ==
    [ok |-> FALSE, status |-> status, code |-> code, error |-> error,
     user |-> NoUser]

(* authenticateToken without the lookup of the encoded user id: the principal
   is taken from the payload of the token. *)
authenticateTokenFromPayload(header) ==
    LET token == TokenOf(header) IN
    IF token = NoToken
    THEN Reject(401, "AUTHENTICATION_ERROR", "Access token required")
    ELSE IF jwtVerify(token) = "TokenExpiredError"
    THEN Reject(401, "AUTHENTICATION_ERROR", "Token expired")
    ELSE IF jwtVerify(token) # "ok"
    THEN Reject(401, "AUTHENTICATION_ERROR", "Invalid token")
    ELSE Pass([id |-> token.userId, email |-> "", role |-> token.role])

(* authenticateToken with a list of ended tokens: a token that was presented
   to a logout or a refresh is refused. *)
authenticateTokenRevoking(header) ==
    LET token == TokenOf(header) IN
    IF token = NoToken
    THEN Reject(401, "AUTHENTICATION_ERROR", "Access token required")
    ELSE IF jwtVerify(token) = "TokenExpiredError"
    THEN Reject(401, "AUTHENTICATION_ERROR", "Token expired")
    ELSE IF jwtVerify(token) # "ok" \/ \E e \in ended : e.token = token
    THEN Reject(401, "AUTHENTICATION_ERROR", "Invalid token")
    ELSE IF token.userId \notin DOMAIN users
    THEN Reject(401, "AUTHENTICATION_ERROR", "User not found")
    ELSE Pass(Principal(token.userId))

authenticateToken(header) ==
    LET token == TokenOf(header) IN
    IF token = NoToken
    THEN Reject(401, "AUTHENTICATION_ERROR", "Access token required")
    ELSE IF jwtVerify(token) = "TokenExpiredError"
    THEN Reject(401, "AUTHENTICATION_ERROR", "Token expired")
    ELSE IF jwtVerify(token) # "ok"
    THEN Reject(401, "AUTHENTICATION_ERROR", "Invalid token")
    ELSE IF token.userId \notin DOMAIN users
    THEN Reject(401, "AUTHENTICATION_ERROR", "User not found")
    ELSE Pass(Principal(token.userId))

(* requireRole that lets every resolved principal through *)
requireRoleAnyPrincipal(roles, user) ==
    IF user = NoUser
    THEN Reject(401, "AUTHENTICATION_ERROR", "Authentication required")
    ELSE Pass(user)

requireRole(roles, user) ==
    IF user = NoUser
    THEN Reject(401, "AUTHENTICATION_ERROR", "Authentication required")
    ELSE IF user.role \notin roles
    THEN Reject(403, "AUTHORIZATION_ERROR", "Insufficient permissions")
    ELSE Pass(user)

(* validate that surfaces the last failure instead of error.details[0] *)
validateLastFailure(route, body, user) ==
    LET errors == SchemaErrors(route, body) IN
    IF errors # <<>>
    THEN Reject(400, "VALIDATION_ERROR", errors[Len(errors)])
    ELSE Pass(user)

validate(route, body, user) ==
    LET errors == SchemaErrors(route, body) IN
    IF errors # <<>> THEN Reject(400, "VALIDATION_ERROR", Head(errors))
    ELSE Pass(user)

(* The middleware in front of a route's handler, in the order it is mounted *)
Middleware(route, header, body) ==
    LET a == IF RequiresToken(route) THEN authenticateToken(header)
             ELSE Pass(NoUser)
        g == IF AdminOnly(route) THEN requireRole({"admin"}, a.user)
             ELSE IF UserGated(route) THEN requireRole({"admin", "user"}, a.user)
             ELSE Pass(a.user)
    IN  IF ~a.ok THEN a
        ELSE IF ~g.ok THEN g
        ELSE validate(route, body, a.user)

----------------------------------------------------------------------------
(* Path parameters.  req.params.id is a string, here the sequence of its
   characters.  The handlers hand it to findByPk as it is; the users router
   also reads it with parseInt. *)

Digits == <<"0", "1", "2", "3", "4", "5", "6", "7", "8", "9">>

IsDigit(c) == \E i \in 1 .. Len(Digits) : Digits[i] = c
DigitValue(c) == (CHOOSE i \in 1 .. Len(Digits) : Digits[i] = c) - 1

RECURSIVE LeadingDigits(_)
LeadingDigits(s) ==
    IF s = <<>> \/ ~IsDigit(Head(s)) THEN <<>>
    ELSE <<Head(s)>> \o LeadingDigits(Tail(s))

RECURSIVE DecimalValue(_)
DecimalValue(ds) ==
    IF ds = <<>> THEN 0
    ELSE DecimalValue(SubSeq(ds, 1, Len(ds) - 1)) * 10
         + DigitValue(ds[Len(ds)])

RECURSIVE Pow10(_)
Pow10(k) == IF k = 0 THEN 1 ELSE 10 * Pow10(k - 1)

(* parseInt(string): the value of the longest prefix of decimal digits, as
   the set holding it, or the empty set for NaN. *)
parseInt(s) ==
    IF LeadingDigits(s) = <<>> THEN {} ELSE {DecimalValue(LeadingDigits(s))}

IsInteger(s) == s # <<>> /\ LeadingDigits(s) = s

(* SQLite compares an INTEGER column with a text value after converting a
   text that is a well-formed numeric literal (digits, optionally followed by
   e or e- and digits) to that number: the integers equal to the text. *)
SqliteNumeric(s) ==
    LET m == LeadingDigits(s)
        rest == SubSeq(s, Len(m) + 1, Len(s))
        down == Len(rest) >= 3 /\ rest[1] = "e" /\ rest[2] = "-"
                /\ IsInteger(SubSeq(rest, 3, Len(rest)))
        up == Len(rest) >= 2 /\ rest[1] = "e"
              /\ IsInteger(SubSeq(rest, 2, Len(rest)))
    IN  IF m = <<>> THEN {}
        ELSE IF rest = <<>> THEN {DecimalValue(m)}
        ELSE IF down
        THEN LET scale == Pow10(DecimalValue(SubSeq(rest, 3, Len(rest))))
             IN  IF DecimalValue(m) % scale = 0
                 THEN {DecimalValue(m) \div scale} ELSE {}
        ELSE IF up
        THEN {DecimalValue(m) * Pow10(DecimalValue(SubSeq(rest, 2, Len(rest))))}
        ELSE {}

(* The database of the deployment: config/database.js takes the dialect from
   DATABASE_URL, SQLite when it is unset. *)
Dialects == {"sqlite", "postgres"}

(* Model.findByPk(id): the keys of the rows WHERE id = '<id>' selects.
   PostgreSQL reads the text as an integer and raises an error when it is not
   one; SQLite converts it as above. *)
findByPk(table, id) ==
    IF dialect = "sqlite"
    THEN [threw |-> FALSE, keys |-> SqliteNumeric(id) \cap DOMAIN table]
    ELSE IF IsInteger(id)
    THEN [threw |-> FALSE, keys |-> {DecimalValue(id)} \cap DOMAIN table]
    ELSE [threw |-> TRUE, keys |-> {}]

(* The instance findByPk returned: the key and the values read. *)
Instance(table, key) == [id |-> key, values |-> table[key]]

----------------------------------------------------------------------------
(* Passwords: the beforeCreate hook stores bcrypt.hash(password), a digest
   of the password under a fresh salt; comparePassword hashes the candidate
   under the stored salt. *)

Salts == {"s1", "s2"}

bcryptHash(password, salt) == [salt |-> salt, digest |-> <<salt, password>>]

(* a comparison that accepts every candidate *)
comparePasswordAny(candidate, stored) == TRUE

comparePassword(candidate, stored) ==
    bcryptHash(candidate, stored.salt) = stored

(* a serialisation that keeps every value of the instance *)
toJSONKeepAll(id, row) == [id |-> id] @@ row

(* User.prototype.toJSON / attributes: { exclude: ['password'] }: the values
   of the instance without the key password *)
toJSON(id, row) ==
    LET values == [id |-> id] @@ row
    IN  [k \in DOMAIN values \ {"password"} |-> values[k]]

(* attributes: [...] in a query: the columns selected *)
Select(row, attributes) == [k \in DOMAIN row \cap attributes |-> row[k]]

(* autoIncrement: the key of a new row is the next value of the table's
   sequence, which never returns a key it has handed out. *)
NewUserId == nextUserId

(* The client stores the token of the response in place of the one it had. *)
Keep(p, token) == [tokens EXCEPT ![p] = token]

----------------------------------------------------------------------------
(* Requests in flight and the exchange completed last *)

NoRow == [none |-> TRUE]

Idle ==
    [pc |-> "idle", route |-> "", header |-> <<>>, id |-> <<>>, body |-> NoBody,
     user |-> NoUser, at |-> 0, gone |-> {}, pre |-> NoRow, wrote |-> FALSE,
     row |-> NoRow]

NoExchange ==
    [route |-> "", header |-> <<>>, id |-> <<>>, body |-> NoBody, at |-> 0,
     gone |-> {}, pre |-> NoRow, user |-> NoUser, status |-> 0, code |-> "",
     error |-> "",
     data |-> NoData, ran |-> FALSE, wrote |-> FALSE]

(* The tables as a request finds them on arrival. *)
Snapshot ==
    [users |-> users, customers |-> customers, leads |-> leads,
     tasks |-> tasks, interactions |-> interactions]

(* res.status(status).json(...) from the handler of p's request.  The
   exchange records the request, the time it arrived (at), the users deleted
   by then (gone), the tables at that time (pre), the principal, the
   response, whether the handler ran and whether the request changed a
   table. *)
Respond(p, status, code, error, data) ==
    /\ last' = [route |-> proc[p].route, header |-> proc[p].header,
                id |-> proc[p].id, body |-> proc[p].body, at |-> proc[p].at,
                gone |-> proc[p].gone, pre |-> proc[p].pre,
                user |-> proc[p].user, status |-> status, code |-> code,
                error |-> error, data |-> data, ran |-> TRUE,
                wrote |-> (proc[p].wrote \/ db' # db)]
    /\ proc' = [proc EXCEPT ![p] = Idle]

(* The handler of p's request goes on to its next await. *)
Continue(p, label, row) ==
    /\ proc' = [proc EXCEPT ![p].pc = label, ![p].row = row,
                            ![p].wrote = (@ \/ db' # db)]
    /\ UNCHANGED last

(* No response is waiting to be read, and p's request stands at label. *)
At(p, label) == last = NoExchange /\ proc[p].pc = label

(* A request arrives and runs through the middleware of its route. *)
Request(p, route, header, id, body) ==
    /\ At(p, "idle")
    /\ UNCHANGED <<dialect, walk, ended, db, deleted, tokens, now>>
    /\ LET m == Middleware(route, header, body) IN
       IF m.ok
       THEN /\ proc' = [proc EXCEPT ![p] =
                          [pc |-> route, route |-> route, header |-> header,
                           id |-> id, body |-> body, user |-> m.user,
                           at |-> now, gone |-> deleted, pre |-> Snapshot,
                           wrote |-> FALSE, row |-> NoRow]]
            /\ UNCHANGED last
       ELSE /\ last' = [route |-> route, header |-> header, id |-> id,
                        body |-> body, at |-> now, gone |-> deleted,
                        pre |-> Snapshot, user |-> NoUser,
                        status |-> m.status, code |-> m.code,
                        error |-> m.error, data |-> NoData, ran |-> FALSE,
                        wrote |-> (db' # db)]
            /\ UNCHANGED proc

----------------------------------------------------------------------------
(* routes/auth.js *)

data == <<customers, leads, tasks, interactions, nextLeadId, nextTaskId,
         nextCustomerId, nextInteractionId>>

UsersWithEmail(email) == {i \in DOMAIN users : users[i].email = email}

(* POST /api/auth/register: User.findOne({ where: { email } }) *)
RegisterFind(p) ==
    /\ At(p, "POST /api/auth/register")
    /\ UNCHANGED <<dialect, walk, ended, db, deleted, tokens, now>>
    /\ IF UsersWithEmail(proc[p].body.email) # {}
       THEN Respond(p, 409, "DUPLICATE_ENTRY",
                    "User with this email already exists", NoData)
       ELSE Continue(p, "register:create", NoRow)

(* POST /api/auth/register: User.create, generateToken, 201.  The unique
   index on users.email refuses a second row with the email; the handler's
   catch answers whatever User.create throws with 500 DATABASE_ERROR. *)
RegisterCreate(p) ==
    LET body == proc[p].body
        role == IF Has(body, "role") THEN body.role ELSE "user"
        id == NewUserId
    IN
    /\ At(p, "register:create")
    /\ UNCHANGED <<dialect, walk, ended, data, deleted, now>>
    /\ IF UsersWithEmail(body.email) # {}
       THEN /\ UNCHANGED <<users, nextUserId, tokens>>
            /\ Respond(p, 500, "DATABASE_ERROR", "Validation error", NoData)
       ELSE \E salt \in Salts :
              /\ id <= MaxUserId
              /\ LET row == [email |-> body.email,
                             password |-> bcryptHash(body.password, salt),
                             role |-> role]
                     token == generateToken([id |-> id, role |-> role])
                 IN  /\ users' = (id :> row) @@ users
                     /\ nextUserId' = nextUserId + 1
                     /\ tokens' = Keep(p, token)
                     /\ Respond(p, 201, "", "",
                                [user |-> toJSON(id, row), token |-> token])

(* POST /api/auth/login *)
Login(p) ==
    LET body == proc[p].body
        found == UsersWithEmail(body.email)
    IN
    /\ At(p, "POST /api/auth/login")
    /\ UNCHANGED <<dialect, walk, ended, db, deleted, now>>
    /\ IF found = {}
       THEN /\ UNCHANGED tokens
            /\ Respond(p, 401, "AUTHENTICATION_ERROR", "Invalid credentials",
                       NoData)
       ELSE LET id == CHOOSE i \in found : TRUE
                token == generateToken([id |-> id, role |-> users[id].role])
            IN  IF ~comparePassword(body.password, users[id].password)
                THEN /\ UNCHANGED tokens
                     /\ Respond(p, 401, "AUTHENTICATION_ERROR",
                                "Invalid credentials", NoData)
                ELSE /\ tokens' = Keep(p, token)
                     /\ Respond(p, 200, "", "",
                                [user |-> toJSON(id, users[id]),
                                 token |-> token])

(* GET /api/auth/me *)
Me(p) ==
    /\ At(p, "GET /api/auth/me")
    /\ UNCHANGED <<dialect, walk, ended, db, deleted, tokens, now>>
    /\ Respond(p, 200, "", "", [user |-> toJSON(proc[p].user.id, proc[p].user)])

(* GET /api/health (sequelize.authenticate() succeeds) and GET /api *)
Health(p) ==
    /\ At(p, "GET /api/health")
    /\ UNCHANGED <<dialect, walk, ended, db, deleted, tokens, now>>
    /\ Respond(p, 200, "", "", [status |-> "healthy"])

ApiInfo(p) ==
    /\ At(p, "GET /api")
    /\ UNCHANGED <<dialect, walk, ended, db, deleted, tokens, now>>
    /\ Respond(p, 200, "", "", [message |-> "L2 CRM API"])

(* POST /api/auth/logout *)
Logout(p) ==
    /\ At(p, "POST /api/auth/logout")
    /\ UNCHANGED <<dialect, walk, ended, db, deleted, tokens, now>>
    /\ Respond(p, 200, "", "", NoData)

(* POST /api/auth/refresh *)
Refresh(p) ==
    LET token == generateToken(proc[p].user) IN
    /\ At(p, "POST /api/auth/refresh")
    /\ UNCHANGED <<dialect, walk, ended, db, deleted, now>>
    /\ tokens' = Keep(p, token)
    /\ Respond(p, 200, "", "",
               [user |-> toJSON(proc[p].user.id, proc[p].user), token |-> token])

----------------------------------------------------------------------------
(* routes/users.js *)

(* GET /api/users *)
UsersList(p) ==
    /\ At(p, "GET /api/users")
    /\ UNCHANGED <<dialect, walk, ended, db, deleted, tokens, now>>
    /\ Respond(p, 200, "", "",
               [users |-> {toJSON(i, users[i]) : i \in DOMAIN users}])

(* The keys of a body that name an attribute of the model *)
Pick(body, attributes) == [k \in DOMAIN body \cap attributes |-> body[k]]

(* an update that reaches no row *)
UpdatedNothing(table, instance, values) == table

(* instance.update(values): nothing is written when no value differs from
   the instance; otherwise the UPDATE sets the attributes named in values,
   in the row with the instance's key. *)
Updated(table, instance, values) ==
    LET changed == {k \in DOMAIN values : values[k] # instance.values[k]} IN
    IF changed = {} \/ instance.id \notin DOMAIN table THEN table
    ELSE [table EXCEPT ![instance.id] =
            [k \in DOMAIN @ |->
               IF k \in DOMAIN values THEN values[k] ELSE @[k]]]

(* GET /api/users/:id *)
UsersGet(p) ==
    LET found == findByPk(users, proc[p].id) IN
    /\ At(p, "GET /api/users/:id")
    /\ UNCHANGED <<dialect, walk, ended, db, deleted, tokens, now>>
    /\ IF found.threw
       THEN Respond(p, 500, "DATABASE_ERROR", "invalid input syntax", NoData)
       ELSE IF found.keys = {}
       THEN Respond(p, 404, "NOT_FOUND", "User not found", NoData)
       ELSE LET id == CHOOSE i \in found.keys : TRUE
            IN  Respond(p, 200, "", "", [user |-> toJSON(id, users[id])])

(* PUT /api/users/:id: User.findByPk(id) *)
UsersPutFind(p) ==
    LET found == findByPk(users, proc[p].id) IN
    /\ At(p, "PUT /api/users/:id")
    /\ UNCHANGED <<dialect, walk, ended, db, deleted, tokens, now>>
    /\ IF found.threw
       THEN Respond(p, 500, "DATABASE_ERROR", "invalid input syntax", NoData)
       ELSE IF found.keys = {}
       THEN Respond(p, 404, "NOT_FOUND", "User not found", NoData)
       ELSE Continue(p, "users:update",
                     Instance(users, CHOOSE i \in found.keys : TRUE))

(* PUT /api/users/:id: user.update({ name, email, role }) with the keys the
   body defines; the unique index on email refuses a second row with the
   email, and the catch answers 500 DATABASE_ERROR. *)
UsersPutUpdate(p) ==
    LET id == proc[p].row.id
        values == Pick(proc[p].body, {"email", "role"})
        after == Updated(users, proc[p].row, values)
    IN
    /\ At(p, "users:update")
    /\ UNCHANGED <<dialect, walk, ended, nextUserId, data, deleted, tokens,
                   now>>
    /\ IF /\ after # users
          /\ \E i \in DOMAIN after \ {id} : after[i].email = after[id].email
       THEN /\ UNCHANGED users
            /\ Respond(p, 500, "DATABASE_ERROR", "Validation error", NoData)
       ELSE /\ users' = after
            /\ Respond(p, 200, "", "",
                       [user |-> toJSON(id, values @@ proc[p].row.values)])

(* DELETE /api/users/:id: parseInt(id) === req.user.id answers 400;
   otherwise User.findByPk(id) *)
UsersDeleteFind(p) ==
    LET found == findByPk(users, proc[p].id) IN
    /\ At(p, "DELETE /api/users/:id")
    /\ UNCHANGED <<dialect, walk, ended, db, deleted, tokens, now>>
    /\ IF parseInt(proc[p].id) = {proc[p].user.id}
       THEN Respond(p, 400, "VALIDATION_ERROR",
                    "Cannot delete your own account", NoData)
       ELSE IF found.threw
       THEN Respond(p, 500, "DATABASE_ERROR", "invalid input syntax", NoData)
       ELSE IF found.keys = {}
       THEN Respond(p, 404, "NOT_FOUND", "User not found", NoData)
       ELSE Continue(p, "users:destroy",
                     Instance(users, CHOOSE i \in found.keys : TRUE))

(* a foreign key that deletes the referencing rows instead *)
SetNullDeleting(table, column, id) ==
    [i \in {j \in DOMAIN table : table[j][column] # id} |-> table[i]]

(* The foreign keys on users(id) are nullable: ON DELETE SET NULL *)
SetNull(table, column, id) ==
    [i \in DOMAIN table |->
        IF table[i][column] = id THEN [table[i] EXCEPT ![column] = NullId]
        ELSE table[i]]

Without(table, id) == [i \in DOMAIN table \ {id} |-> table[i]]

(* DELETE /api/users/:id: user.destroy() *)
UsersDeleteDestroy(p) ==
    LET id == proc[p].row.id IN
    /\ At(p, "users:destroy")
    /\ UNCHANGED <<dialect, walk, ended, nextCustomerId, nextInteractionId, nextUserId,
                   customers, nextLeadId, nextTaskId,
                   tokens, now>>
    /\ users' = Without(users, id)
    /\ deleted' = IF id \in DOMAIN users THEN deleted \cup {id} ELSE deleted
    /\ leads' = SetNull(leads, "assigned_to", id)
    /\ tasks' = SetNull(tasks, "assignedTo", id)
    /\ interactions' = SetNull(interactions, "created_by", id)
    /\ Respond(p, 200, "", "", NoData)

----------------------------------------------------------------------------
(* routes/leads.js, models/Lead.js *)

NoValue == [null |-> TRUE]

(* The attributes of Lead that a body can set: Model.build and
   instance.update keep the keys that name an attribute and drop the rest
   (customerId and assignedTo name none: the attributes are customer_id and
   assigned_to). *)
LeadAttributes ==
    {"title", "description", "stage", "value", "customer_id", "assigned_to"}

(* A column of type ENUM: PostgreSQL refuses a value outside the list,
   SQLite stores it as text. *)
EnumAccepts(value, allowed) == dialect = "sqlite" \/ value \in allowed

(* include: [Customer as customer, User as assignedUser] *)
CustomerOf(id) ==
    IF id \in DOMAIN customers
    THEN Select([id |-> id] @@ customers[id],
                {"id", "name", "email", "company"})
    ELSE NoValue

UserOf(id) ==
    IF id \in DOMAIN users
    THEN Select([id |-> id] @@ users[id], {"id", "name", "email"})
    ELSE NoValue

LeadWithAssociations(key) ==
    [id |-> key, values |-> leads[key],
     customer |-> CustomerOf(leads[key].customer_id),
     assignedUser |-> UserOf(leads[key].assigned_to)]

(* Lead.findByPk(id, { include }) as the response carries it *)
FetchLead(id) ==
    LET found == findByPk(leads, id) IN
    IF found.keys = {} THEN NoValue
    ELSE LeadWithAssociations(CHOOSE i \in found.keys : TRUE)

(* POST /api/leads: Lead.create(req.body), then Lead.findByPk(lead.id).
   The row built from the body has no customer_id unless the body names that
   attribute; allowNull: false makes create throw, and the catch answers
   500 DATABASE_ERROR. *)
LeadsCreate(p) ==
    LET values == Pick(proc[p].body, LeadAttributes)
        row == values
               @@ [description |-> "", stage |-> "lead", value |-> NullId,
                   assigned_to |-> NullId]
        id == nextLeadId
    IN
    /\ At(p, "POST /api/leads")
    /\ UNCHANGED <<dialect, walk, ended, nextCustomerId, nextInteractionId, users,
                   nextUserId, customers, tasks, interactions,
                   nextTaskId, deleted, tokens, now>>
    /\ IF ~Has(values, "customer_id")
       THEN /\ UNCHANGED <<leads, nextLeadId>>
            /\ Respond(p, 500, "DATABASE_ERROR",
                       "notNull Violation: Lead.customer_id cannot be null",
                       NoData)
       ELSE IF \/ row.customer_id \notin DOMAIN customers
               \/ ~EnumAccepts(row.stage, Stages)
       THEN /\ UNCHANGED <<leads, nextLeadId>>
            /\ Respond(p, 500, "DATABASE_ERROR", "constraint", NoData)
       ELSE /\ id <= MaxLeadId
            /\ leads' = (id :> row) @@ leads
            /\ nextLeadId' = nextLeadId + 1
            /\ Respond(p, 201, "", "",
                       [lead |-> [id |-> id, values |-> row,
                                  customer |-> CustomerOf(row.customer_id),
                                  assignedUser |-> UserOf(row.assigned_to)]])

(* GET /api/leads/:id *)
LeadsGet(p) ==
    LET found == findByPk(leads, proc[p].id) IN
    /\ At(p, "GET /api/leads/:id")
    /\ UNCHANGED <<dialect, walk, ended, db, deleted, tokens, now>>
    /\ IF found.threw
       THEN Respond(p, 500, "DATABASE_ERROR", "invalid input syntax", NoData)
       ELSE IF found.keys = {}
       THEN Respond(p, 404, "NOT_FOUND", "Lead not found", NoData)
       ELSE Respond(p, 200, "", "", [lead |-> FetchLead(proc[p].id)])

(* PUT /api/leads/:id, PUT /api/leads/:id/stage, DELETE /api/leads/:id:
   Lead.findByPk(id) *)
LeadsFind(p) ==
    LET found == findByPk(leads, proc[p].id)
        next == CASE proc[p].route = "PUT /api/leads/:id" -> "leads:update"
                  [] proc[p].route = "PUT /api/leads/:id/stage" -> "leads:stage"
                  [] OTHER -> "leads:destroy"
    IN
    /\ \/ At(p, "PUT /api/leads/:id")
       \/ At(p, "PUT /api/leads/:id/stage")
       \/ At(p, "DELETE /api/leads/:id")
    /\ UNCHANGED <<dialect, walk, ended, db, deleted, tokens, now>>
    /\ IF found.threw
       THEN Respond(p, 500, "DATABASE_ERROR", "invalid input syntax", NoData)
       ELSE IF found.keys = {}
       THEN Respond(p, 404, "NOT_FOUND", "Lead not found", NoData)
       ELSE Continue(p, next, Instance(leads, CHOOSE i \in found.keys : TRUE))

(* lead.update(req.body) and lead.update({ stage }) *)
LeadsUpdate(p) ==
    LET values == IF proc[p].pc = "leads:stage"
                  THEN [stage |-> proc[p].body.stage]
                  ELSE Pick(proc[p].body, LeadAttributes)
    IN
    /\ At(p, "leads:update") \/ At(p, "leads:stage")
    /\ UNCHANGED <<dialect, walk, ended, nextCustomerId, nextInteractionId, users,
                   nextUserId, customers, tasks, interactions,
                   nextLeadId, nextTaskId, deleted, tokens, now>>
    /\ IF Has(values, "stage") /\ ~EnumAccepts(values.stage, Stages)
       THEN /\ UNCHANGED leads
            /\ Respond(p, 500, "DATABASE_ERROR",
                       "invalid input value for enum", NoData)
       ELSE /\ leads' = Updated(leads, proc[p].row, values)
            /\ Continue(p, "leads:refetch", proc[p].row)

(* Lead.findByPk(id, { include }) and the 200 *)
LeadsRefetch(p) ==
    /\ At(p, "leads:refetch")
    /\ UNCHANGED <<dialect, walk, ended, db, deleted, tokens, now>>
    /\ IF proc[p].route = "PUT /api/leads/:id/stage"
       THEN Respond(p, 200, "", "",
                    [lead |-> FetchLead(proc[p].id),
                     oldStage |-> proc[p].row.values.stage,
                     newStage |-> proc[p].body.stage])
       ELSE Respond(p, 200, "", "", [lead |-> FetchLead(proc[p].id)])

(* DELETE /api/leads/:id: lead.destroy() *)
LeadsDestroy(p) ==
    /\ At(p, "leads:destroy")
    /\ UNCHANGED <<dialect, walk, ended, nextCustomerId, nextInteractionId, users,
                   nextUserId, customers, tasks, interactions,
                   nextLeadId, nextTaskId, deleted, tokens, now>>
    /\ leads' = Without(leads, proc[p].row.id)
    /\ Respond(p, 200, "", "", NoData)

----------------------------------------------------------------------------
(* routes/tasks.js, models/Task.js *)

TaskAttributes ==
    {"title", "description", "status", "priority", "dueDate", "assignedTo",
     "customerId"}

(* The columns assigned_to and customer_id reference users and customers. *)
TaskReferencesHold(row) ==
    /\ row.assignedTo = NullId \/ row.assignedTo \in DOMAIN users
    /\ row.customerId = NullId \/ row.customerId \in DOMAIN customers

TaskEnumsHold(row) ==
    EnumAccepts(row.status, Statuses) /\ EnumAccepts(row.priority, Priorities)

TaskWithAssociations(key) ==
    [id |-> key, values |-> tasks[key],
     customer |-> CustomerOf(tasks[key].customerId),
     assignedUser |-> UserOf(tasks[key].assignedTo)]

FetchTask(id) ==
    LET found == findByPk(tasks, id) IN
    IF found.keys = {} THEN NoValue
    ELSE TaskWithAssociations(CHOOSE i \in found.keys : TRUE)

(* POST /api/tasks: Task.create(req.body) *)
TasksCreate(p) ==
    LET row == Pick(proc[p].body, TaskAttributes)
               @@ [description |-> "", status |-> "pending",
                   priority |-> "medium", dueDate |-> NullId,
                   assignedTo |-> NullId, customerId |-> NullId]
        id == nextTaskId
    IN
    /\ At(p, "POST /api/tasks")
    /\ UNCHANGED <<dialect, walk, ended, nextCustomerId, nextInteractionId, users,
                   nextUserId, customers, leads, interactions,
                   nextLeadId, deleted, tokens, now>>
    /\ IF ~TaskReferencesHold(row) \/ ~TaskEnumsHold(row)
       THEN /\ UNCHANGED <<tasks, nextTaskId>>
            /\ Respond(p, 500, "DATABASE_ERROR", "constraint", NoData)
       ELSE /\ id <= MaxTaskId
            /\ tasks' = (id :> row) @@ tasks
            /\ nextTaskId' = nextTaskId + 1
            /\ Continue(p, "tasks:created", [id |-> id, values |-> row])

(* POST /api/tasks: Task.findByPk(task.id, { include }) and the 201 *)
TasksCreated(p) ==
    LET id == proc[p].row.id IN
    /\ At(p, "tasks:created")
    /\ UNCHANGED <<dialect, walk, ended, db, deleted, tokens, now>>
    /\ Respond(p, 201, "", "",
               [task |-> IF id \in DOMAIN tasks THEN TaskWithAssociations(id)
                         ELSE NoValue])

(* PUT /api/tasks/:id, PUT /api/tasks/:id/status: Task.findByPk(id) *)
TasksFind(p) ==
    LET found == findByPk(tasks, proc[p].id)
        next == IF proc[p].route = "PUT /api/tasks/:id" THEN "tasks:update"
                ELSE "tasks:status"
    IN
    /\ At(p, "PUT /api/tasks/:id") \/ At(p, "PUT /api/tasks/:id/status")
    /\ UNCHANGED <<dialect, walk, ended, db, deleted, tokens, now>>
    /\ IF found.threw
       THEN Respond(p, 500, "DATABASE_ERROR", "invalid input syntax", NoData)
       ELSE IF found.keys = {}
       THEN Respond(p, 404, "NOT_FOUND", "Task not found", NoData)
       ELSE Continue(p, next, Instance(tasks, CHOOSE i \in found.keys : TRUE))

(* task.update(req.body) and task.update({ status }) *)
TasksUpdate(p) ==
    LET values == IF proc[p].pc = "tasks:status"
                  THEN [status |-> proc[p].body.status]
                  ELSE Pick(proc[p].body, TaskAttributes)
        new == values @@ proc[p].row.values
    IN
    /\ At(p, "tasks:update") \/ At(p, "tasks:status")
    /\ UNCHANGED <<dialect, walk, ended, nextCustomerId, nextInteractionId, users,
                   nextUserId, customers, leads, interactions,
                   nextLeadId, nextTaskId, deleted, tokens, now>>
    /\ IF ~TaskReferencesHold(new) \/ ~TaskEnumsHold(new)
       THEN /\ UNCHANGED tasks
            /\ Respond(p, 500, "DATABASE_ERROR", "constraint", NoData)
       ELSE /\ tasks' = Updated(tasks, proc[p].row, values)
            /\ Continue(p, "tasks:refetch", proc[p].row)

(* Task.findByPk(id, { include }) and the 200 *)
TasksRefetch(p) ==
    /\ At(p, "tasks:refetch")
    /\ UNCHANGED <<dialect, walk, ended, db, deleted, tokens, now>>
    /\ Respond(p, 200, "", "", [task |-> FetchTask(proc[p].id)])

(* GET /api/tasks/:id *)
TasksGet(p) ==
    LET found == findByPk(tasks, proc[p].id) IN
    /\ At(p, "GET /api/tasks/:id")
    /\ UNCHANGED <<dialect, walk, ended, db, deleted, tokens, now>>
    /\ IF found.threw
       THEN Respond(p, 500, "DATABASE_ERROR", "invalid input syntax", NoData)
       ELSE IF found.keys = {}
       THEN Respond(p, 404, "NOT_FOUND", "Task not found", NoData)
       ELSE Respond(p, 200, "", "", [task |-> FetchTask(proc[p].id)])

(* DELETE /api/tasks/:id: Task.findByPk(id) *)
TasksDeleteFind(p) ==
    LET found == findByPk(tasks, proc[p].id) IN
    /\ At(p, "DELETE /api/tasks/:id")
    /\ UNCHANGED <<dialect, walk, ended, db, deleted, tokens, now>>
    /\ IF found.threw
       THEN Respond(p, 500, "DATABASE_ERROR", "invalid input syntax", NoData)
       ELSE IF found.keys = {}
       THEN Respond(p, 404, "NOT_FOUND", "Task not found", NoData)
       ELSE Continue(p, "tasks:destroy",
                     Instance(tasks, CHOOSE i \in found.keys : TRUE))

(* DELETE /api/tasks/:id: task.destroy() *)
TasksDestroy(p) ==
    /\ At(p, "tasks:destroy")
    /\ UNCHANGED <<dialect, walk, ended, nextCustomerId, nextInteractionId, users,
                   nextUserId, customers, leads, interactions, nextLeadId,
                   nextTaskId, deleted, tokens, now>>
    /\ tasks' = Without(tasks, proc[p].row.id)
    /\ Respond(p, 200, "", "", NoData)

----------------------------------------------------------------------------
(* routes/customers.js, models/Customer.js.  A text is the sequence of its
   characters; a tag is a text. *)

CustomerAttributes == {"name", "email", "phone", "company", "tags", "notes"}

(* JSON.stringify of an array of strings *)
JSONstringify(array) ==
    LET RECURSIVE Escaped(_)
        Escaped(t) ==
            IF t = <<>> THEN <<>>
            ELSE (IF Head(t) \in {"\"", "\\"} THEN <<"\\", Head(t)>>
                  ELSE <<Head(t)>>) \o Escaped(Tail(t))
        RECURSIVE Items(_)
        Items(a) ==
            IF a = <<>> THEN <<>>
            ELSE <<"\"">> \o Escaped(Head(a)) \o <<"\"">>
                 \o (IF Tail(a) = <<>> THEN <<>> ELSE <<",">>) \o Items(Tail(a))
    IN  <<"[">> \o Items(array) \o <<"]">>

(* JSON.parse of the text of an array of strings *)
JSONparse(text) ==
    LET RECURSIVE Items(_, _, _, _)
        Items(t, inside, cur, acc) ==
            IF t = <<>> THEN acc
            ELSE IF ~inside
            THEN Items(Tail(t), Head(t) = "\"", <<>>, acc)
            ELSE IF Head(t) = "\\" /\ Len(t) >= 2
            THEN Items(Tail(Tail(t)), TRUE, Append(cur, t[2]), acc)
            ELSE IF Head(t) = "\""
            THEN Items(Tail(t), FALSE, <<>>, Append(acc, cur))
            ELSE Items(Tail(t), TRUE, Append(cur, Head(t)), acc)
    IN  Items(text, FALSE, <<>>, <<>>)

(* The values Customer.build / customer.update store for a body: the keys
   that name an attribute, tags through its setter. *)
CustomerValues(body) ==
    LET values == Pick(body, CustomerAttributes)
    IN  [k \in DOMAIN values |->
            IF k = "tags" THEN JSONstringify(values[k]) ELSE values[k]]

(* validate: { isEmail: true } runs on every value that is not null, the
   empty string included. *)
CustomerValidates(values) ==
    Has(values, "email") => values.email \in WellFormedEmails

(* instance.toJSON(): get() reads tags through its getter *)
CustomerJSON(id, values) ==
    [id |-> id,
     values |-> [k \in DOMAIN values |->
                   IF k = "tags"
                   THEN (IF values[k] = <<>> THEN <<>> ELSE JSONparse(values[k]))
                   ELSE values[k]]]

(* Rows of a table that reference customer id in column *)
Referencing(table, column, id) == {i \in DOMAIN table : table[i][column] = id}

(* ON DELETE CASCADE on a foreign key column *)
Cascade(table, column, id) ==
    [i \in DOMAIN table \ Referencing(table, column, id) |-> table[i]]

(* POST /api/customers: Customer.create(req.body) *)
CustomersCreate(p) ==
    LET values == CustomerValues(proc[p].body)
        row == values @@ [tags |-> <<"[", "]">>]
        id == nextCustomerId
    IN
    /\ At(p, "POST /api/customers")
    /\ UNCHANGED <<dialect, walk, ended, users, nextUserId, leads, tasks, interactions,
                   nextLeadId, nextTaskId, nextInteractionId, deleted, tokens,
                   now>>
    /\ IF ~CustomerValidates(values)
       THEN /\ UNCHANGED <<customers, nextCustomerId>>
            /\ Respond(p, 500, "DATABASE_ERROR",
                       "Validation error: Validation isEmail on email failed",
                       NoData)
       ELSE /\ id <= MaxCustomerId
            /\ customers' = (id :> row) @@ customers
            /\ nextCustomerId' = nextCustomerId + 1
            /\ Respond(p, 201, "", "", [customer |-> CustomerJSON(id, row)])

(* GET /api/customers/:id: Customer.findByPk(id, { include: interactions,
   leads, tasks }) *)
CustomersGet(p) ==
    LET found == findByPk(customers, proc[p].id) IN
    /\ At(p, "GET /api/customers/:id")
    /\ UNCHANGED <<dialect, walk, ended, db, deleted, tokens, now>>
    /\ IF found.threw
       THEN Respond(p, 500, "DATABASE_ERROR", "invalid input syntax", NoData)
       ELSE IF found.keys = {}
       THEN Respond(p, 404, "NOT_FOUND", "Customer not found", NoData)
       ELSE LET id == CHOOSE i \in found.keys : TRUE IN
            Respond(p, 200, "", "",
                    [customer |-> CustomerJSON(id, customers[id]),
                     interactions |-> Referencing(interactions, "customer_id", id),
                     leads |-> Referencing(leads, "customer_id", id),
                     tasks |-> Referencing(tasks, "customerId", id)])

(* PUT /api/customers/:id, DELETE /api/customers/:id and
   POST /api/customers/:id/interactions: Customer.findByPk(id) *)
CustomersFind(p) ==
    LET found == findByPk(customers, proc[p].id)
        next == CASE proc[p].route = "PUT /api/customers/:id"
                       -> "customers:update"
                  [] proc[p].route = "DELETE /api/customers/:id"
                       -> "customers:destroy"
                  [] OTHER -> "customers:interaction"
    IN
    /\ \/ At(p, "PUT /api/customers/:id")
       \/ At(p, "DELETE /api/customers/:id")
       \/ At(p, "POST /api/customers/:id/interactions")
    /\ UNCHANGED <<dialect, walk, ended, db, deleted, tokens, now>>
    /\ IF found.threw
       THEN Respond(p, 500, "DATABASE_ERROR", "invalid input syntax", NoData)
       ELSE IF found.keys = {}
       THEN Respond(p, 404, "NOT_FOUND", "Customer not found", NoData)
       ELSE Continue(p, next,
                     Instance(customers, CHOOSE i \in found.keys : TRUE))

(* PUT /api/customers/:id: customer.update(req.body); the response carries
   the instance in memory. *)
CustomersUpdate(p) ==
    LET values == CustomerValues(proc[p].body)
        id == proc[p].row.id
    IN
    /\ At(p, "customers:update")
    /\ UNCHANGED <<dialect, walk, ended, users, nextUserId, leads, tasks, interactions,
                   nextLeadId, nextTaskId, nextCustomerId, nextInteractionId,
                   deleted, tokens, now>>
    /\ IF ~CustomerValidates(values)
       THEN /\ UNCHANGED customers
            /\ Respond(p, 500, "DATABASE_ERROR",
                       "Validation error: Validation isEmail on email failed",
                       NoData)
       ELSE /\ customers' = IF id \in DOMAIN customers
                            THEN [customers EXCEPT ![id] = values @@ @]
                            ELSE customers
            /\ Respond(p, 200, "", "",
                       [customer |->
                          CustomerJSON(id, values @@ proc[p].row.values)])

(* DELETE /api/customers/:id: customer.destroy().  The foreign keys
   leads.customer_id and interactions.customer_id are NOT NULL and cascade;
   the column tasks.customer_id is created from the attribute the
   associations add to Task, which is nullable: ON DELETE SET NULL. *)
CustomersDestroy(p) ==
    LET id == proc[p].row.id IN
    /\ At(p, "customers:destroy")
    /\ UNCHANGED <<dialect, walk, ended, users, nextUserId, nextLeadId, nextTaskId,
                   nextCustomerId, nextInteractionId, deleted, tokens, now>>
    /\ customers' = Without(customers, id)
    /\ leads' = Cascade(leads, "customer_id", id)
    /\ interactions' = Cascade(interactions, "customer_id", id)
    /\ tasks' = SetNull(tasks, "customerId", id)
    /\ Respond(p, 200, "", "", NoData)

----------------------------------------------------------------------------
(* routes/interactions.js and POST /api/customers/:id/interactions *)

(* POST /api/interactions: Customer.findByPk(customerId) *)
InteractionsFind(p) ==
    LET id == proc[p].body.customerId IN
    /\ At(p, "POST /api/interactions")
    /\ UNCHANGED <<dialect, walk, ended, db, deleted, tokens, now>>
    /\ IF id \notin DOMAIN customers
       THEN Respond(p, 404, "NOT_FOUND", "Customer not found", NoData)
       ELSE Continue(p, "interactions:create", Instance(customers, id))

(* an insert that checks no foreign key *)
InteractionReferencesUnchecked(row) == TRUE

(* The foreign keys of interactions on customers(id) and users(id) *)
InteractionReferencesHold(row) ==
    /\ row.customer_id \in DOMAIN customers
    /\ row.created_by \in DOMAIN users

(* Interaction.create({ customer_id, type, notes, date: date || new Date(),
   created_by: req.user.id }).  The foreign keys refuse a row whose
   customer or creator is gone; the catch answers 500 DATABASE_ERROR. *)
InteractionsCreate(p) ==
    LET body == proc[p].body
        row == [customer_id |-> proc[p].row.id, type |-> body.type,
                notes |-> IF Has(body, "notes") THEN body.notes ELSE "",
                date |-> IF Has(body, "date") THEN body.date ELSE now,
                created_by |-> proc[p].user.id]
        id == nextInteractionId
    IN
    /\ At(p, "interactions:create") \/ At(p, "customers:interaction")
    /\ UNCHANGED <<dialect, walk, ended, users, nextUserId, customers, leads, tasks,
                   nextLeadId, nextTaskId, nextCustomerId, deleted, tokens,
                   now>>
    /\ IF ~InteractionReferencesHold(row)
       THEN /\ UNCHANGED <<interactions, nextInteractionId>>
            /\ Respond(p, 500, "DATABASE_ERROR",
                       "FOREIGN KEY constraint failed", NoData)
       ELSE /\ id <= MaxInteractionId
            /\ interactions' = (id :> row) @@ interactions
            /\ nextInteractionId' = nextInteractionId + 1
            /\ IF proc[p].pc = "customers:interaction"
               THEN Respond(p, 201, "", "",
                            [interaction |-> [id |-> id, values |-> row]])
               ELSE Continue(p, "interactions:created",
                             [id |-> id, values |-> row])

(* POST /api/interactions: Interaction.findByPk(interaction.id, { include })
   and the 201 *)
InteractionsCreated(p) ==
    LET id == proc[p].row.id IN
    /\ At(p, "interactions:created")
    /\ UNCHANGED <<dialect, walk, ended, db, deleted, tokens, now>>
    /\ Respond(p, 201, "", "",
               [interaction |->
                  IF id \in DOMAIN interactions
                  THEN [id |-> id, values |-> interactions[id],
                        customer |-> CustomerOf(interactions[id].customer_id),
                        createdByUser |-> UserOf(interactions[id].created_by)]
                  ELSE NoValue])

----------------------------------------------------------------------------
(* The list routes: router.get('/') of the leads, tasks and interactions
   routers.  req.query holds strings, here sequences of characters; a key
   the request does not send takes the handler's default. *)

(* Number(string) for the numerals a query is drawn from: digits, digits
   with a fraction, digits with an exponent; anything else is NaN.  The
   value is the fraction n / d. *)
ToNumber(s) ==
    LET m == LeadingDigits(s)
        rest == SubSeq(s, Len(m) + 1, Len(s))
        NaN == [nan |-> TRUE, n |-> 0, d |-> 1]
    IN  IF m = <<>> THEN NaN
        ELSE IF rest = <<>> \/ rest = <<".">>
        THEN [nan |-> FALSE, n |-> DecimalValue(m), d |-> 1]
        ELSE IF rest[1] = "." /\ IsInteger(Tail(rest))
        THEN [nan |-> FALSE, n |-> DecimalValue(m \o Tail(rest)),
              d |-> Pow10(Len(Tail(rest)))]
        ELSE IF rest[1] = "e" /\ IsInteger(Tail(rest))
        THEN [nan |-> FALSE,
              n |-> DecimalValue(m) * Pow10(DecimalValue(Tail(rest))),
              d |-> 1]
        ELSE NaN

ListTable(route) ==
    CASE route = "GET /api/leads" -> leads
      [] route = "GET /api/tasks" -> tasks
      [] OTHER -> interactions

(* ORDER BY of the route: TRUE when row a sorts strictly before row b.
   leads: createdAt DESC, and the rows the seeder inserts with one
   bulkCreate carry one createdAt.  tasks: dueDate ASC (NULL first on
   SQLite, last on PostgreSQL), then priority DESC (the order of the ENUM
   on PostgreSQL, of the text on SQLite).  interactions: date DESC. *)
SortsBefore(route, a, b) ==
    LET rank(x) ==
            IF dialect = "postgres"
            THEN CASE x = "low" -> 1 [] x = "medium" -> 2 [] OTHER -> 3
            ELSE CASE x = "high" -> 1 [] x = "low" -> 2 [] OTHER -> 3
        due(x) == IF x = NullId /\ dialect = "postgres" THEN MaxClock + 1
                  ELSE x
    IN  CASE route = "GET /api/leads" -> FALSE
          [] route = "GET /api/tasks" ->
                \/ due(tasks[a].dueDate) < due(tasks[b].dueDate)
                \/ /\ tasks[a].dueDate = tasks[b].dueDate
                   /\ rank(tasks[a].priority) > rank(tasks[b].priority)
          [] OTHER -> interactions[a].date > interactions[b].date

(* The orders in which the database may return all rows of the route's
   table: rows with equal sort keys come in any order, and the order may
   differ from one query to the next. *)
Orders(route) ==
    LET ids == DOMAIN ListTable(route)
        N == Cardinality(ids)
    IN  {o \in [1 .. N -> ids] :
            /\ \A i, j \in 1 .. N : i # j => o[i] # o[j]
            /\ \A i, j \in 1 .. N : i < j => ~SortsBefore(route, o[j], o[i])}

(* Math.ceil(count / limit) with limit as the query gave it: the set
   holding the value, or the empty set for NaN and Infinity, which
   res.json writes as null *)
TotalPages(count, limit) ==
    LET l == ToNumber(limit) IN
    IF l.nan \/ l.n = 0 THEN {}
    ELSE {(count * l.d + l.n - 1) \div l.n}

(* findAndCountAll({ limit: parseInt(limit), offset: parseInt(offset),
   order }) and the pagination block, for one order of the rows.
   offset = (page - 1) * limit is computed on the numbers the strings
   convert to. *)
ListQuery(count, order, page, limit) ==
    LET pg == ToNumber(page)
        l == ToNumber(limit)
        applied == parseInt(limit)
        offset == ((pg.n - pg.d) * l.n) \div (pg.d * l.d)
    IN  IF pg.nan \/ l.nan \/ applied = {}
           \/ (offset < 0 /\ dialect = "postgres")
        THEN [threw |-> TRUE, rows |-> <<>>, pagination |-> NoData]
        ELSE LET lim == CHOOSE n \in applied : TRUE
                 from == IF offset < 0 THEN 1 ELSE offset + 1
                 to == IF from + lim - 1 < count THEN from + lim - 1
                       ELSE count
             IN  [threw |-> FALSE,
                  rows |-> SubSeq(order, from, to),
                  pagination |-> [page |-> parseInt(page), limit |-> applied,
                                  total |-> count,
                                  pages |-> TotalPages(count, limit)]]

NoWalk == [route |-> "", limit |-> <<>>, of |-> <<>>, pages |-> <<>>]

(* The pages a client has read in a row: page 1 starts a walk, the page
   after the last one read continues it while route, limit and table are
   the same, anything else ends it. *)
Walked(route, page, limit, rows) ==
    IF /\ walk.route = route /\ walk.limit = limit
       /\ walk.of = ListTable(route)
       /\ parseInt(page) = {Len(walk.pages) + 1}
    THEN [walk EXCEPT !.pages = Append(@, rows)]
    ELSE IF parseInt(page) = {1}
    THEN [route |-> route, limit |-> limit, of |-> ListTable(route),
          pages |-> <<rows>>]
    ELSE NoWalk

(* GET /api/leads, GET /api/tasks, GET /api/interactions *)
List(p) ==
    LET route == proc[p].route
        query == proc[p].body
        page == IF Has(query, "page") THEN query.page ELSE <<"1">>
        limit == IF Has(query, "limit") THEN query.limit
                 ELSE IF route = "GET /api/interactions" THEN <<"2", "0">>
                 ELSE <<"1", "0">>
        count == Cardinality(DOMAIN ListTable(route))
    IN
    /\ \/ At(p, "GET /api/leads")
       \/ At(p, "GET /api/tasks")
       \/ At(p, "GET /api/interactions")
    /\ UNCHANGED <<db, dialect, ended, deleted, tokens, now>>
    /\ \E order \in Orders(route) :
         LET result == ListQuery(count, order, page, limit) IN
         IF result.threw
         THEN /\ walk' = NoWalk
              /\ Respond(p, 500, "DATABASE_ERROR", "SQL error", NoData)
         ELSE /\ walk' = Walked(route, page, limit, result.rows)
              /\ Respond(p, 200, "", "",
                         [rows |-> result.rows,
                          pagination |-> result.pagination])

----------------------------------------------------------------------------
(* routes/reports.js and GET /api/leads/stats/overview *)

(* a two-decimal rendering that cuts the digits after the second *)
toFixed2Truncating(closed, total) ==
    IF total = 0 THEN 0 ELSE (10000 * closed) \div total

(* parseFloat(((closed / total) * 100).toFixed(2)), in hundredths, for
   0 < closed <= total.  The division and the multiplication are IEEE 754
   double operations: each result is rounded to 53 significant bits, ties
   to even; toFixed(2) then takes the hundredth nearest to the exact value
   of the double, the larger one on a tie.  Numbers wider than a machine
   word are sequences of limbs of 15 bits, least significant first. *)
toFixed2(closed, total) ==
    LET B == 32768
        RECURSIVE Pow2(_)
        Pow2(n) == IF n = 0 THEN 1 ELSE 2 * Pow2(n - 1)
        RECURSIVE Mul(_, _, _)
        Mul(a, m, carry) ==
            IF a = <<>>
            THEN (IF carry = 0 THEN <<>> ELSE <<carry>>)
            ELSE <<(Head(a) * m + carry) % B>>
                 \o Mul(Tail(a), m, (Head(a) * m + carry) \div B)
        RECURSIVE Div(_, _)
        Div(a, d) ==
            IF a = <<>> THEN [q |-> <<>>, r |-> 0]
            ELSE LET hi == Div(Tail(a), d)
                     x == hi.r * B + Head(a)
                 IN  [q |-> <<x \div d>> \o hi.q, r |-> x % d]
        RECURSIVE Inc(_)
        Inc(a) ==
            IF a = <<>> THEN <<1>>
            ELSE IF Head(a) + 1 < B THEN <<Head(a) + 1>> \o Tail(a)
            ELSE <<0>> \o Inc(Tail(a))
        RECURSIVE Val(_)
        Val(a) == IF a = <<>> THEN 0 ELSE Head(a) + B * Val(Tail(a))
        ShiftLeft(a, k) ==
            [i \in 1 .. k \div 15 |-> 0] \o Mul(a, Pow2(k % 15), 0)
        ShiftRight(a, k) ==
            Div(SubSeq(a, k \div 15 + 1, Len(a)), Pow2(k % 15)).q
        (* a / d rounded to the nearest integer, ties to even *)
        DivRound(a, d) ==
            LET x == Div(a, d) IN
            IF 2 * x.r > d \/ (2 * x.r = d /\ x.q[1] % 2 = 1)
            THEN Inc(x.q) ELSE x.q
        (* closed / total = M * 2^-k with 2^52 <= M <= 2^53 *)
        e == CHOOSE n \in 0 .. 31 :
                /\ closed * Pow2(n) >= total
                /\ n > 0 => closed * Pow2(n - 1) < total
        k == 52 + e
        M == DivRound(ShiftLeft(<<closed>>, k), total)
        (* (closed / total) * 100 = M2 * 2^(s - k) *)
        P == Mul(M, 100, 0)
        s == IF Len(P) < 4 \/ P[4] < 16384 THEN 6 ELSE 7
        M2 == DivRound(P, Pow2(s))
    IN  IF total = 0 \/ closed = 0 THEN 0
        ELSE (Val(ShiftRight(Mul(M2, 200, 0), k - s)) + 1) \div 2

(* SELECT stage, COUNT(id) FROM leads GROUP BY stage: a row per stage that
   some lead has *)
GroupByStage ==
    [t \in {leads[l].stage : l \in DOMAIN leads} |->
        Cardinality({l \in DOMAIN leads : leads[l].stage = t})]

(* const pipeline = { lead: 0, qualified: 0, proposal: 0, closed: 0 };
   stats.forEach(stat => { pipeline[stat.stage] = parseInt(stat.count) }) *)
Breakdown(stats) == stats @@ [t \in Stages |-> 0]

(* conversionRate = total > 0 ? (closed / total) * 100 : 0, then
   parseFloat(conversionRate.toFixed(2)); in hundredths *)
ConversionRate ==
    LET total == Cardinality(DOMAIN leads)
        closed == Cardinality({l \in DOMAIN leads : leads[l].stage = "closed"})
    IN  IF total > 0 THEN toFixed2(closed, total) ELSE 0

(* GET /api/reports/dashboard and GET /api/reports/dashboard-stats run four
   queries, one after the other; the handler keeps the results it has and
   answers after the last.  The first query, the customer statistics,
   counts the new customers with date('now', '-30 days'), a function of
   SQLite; PostgreSQL refuses the statement. *)
ReportsDashboard(p) ==
    /\ \/ At(p, "GET /api/reports/dashboard")
       \/ At(p, "GET /api/reports/dashboard-stats")
    /\ UNCHANGED <<dialect, walk, ended, db, deleted, tokens, now>>
    /\ IF dialect = "postgres"
       THEN Respond(p, 500, "DATABASE_ERROR", "SQL error", NoData)
       ELSE Continue(p, "dashboard:leads",
                     [customers |-> [total |-> Cardinality(DOMAIN customers)]])

(* The lead statistics: COUNT(id) and the count of the leads in stage
   closed, of which the answer reports the total and the rate *)
DashboardLeads(p) ==
    /\ At(p, "dashboard:leads")
    /\ UNCHANGED <<dialect, walk, ended, db, deleted, tokens, now>>
    /\ Continue(p, "dashboard:tasks",
                [leads |-> [total |-> Cardinality(DOMAIN leads),
                            conversionRate |-> ConversionRate]]
                @@ proc[p].row)

(* The task statistics: COUNT(id) and the counts of the tasks completed and
   pending, in one statement *)
DashboardTasks(p) ==
    LET with(status) ==
            Cardinality({t \in DOMAIN tasks : tasks[t].status = status})
    IN
    /\ At(p, "dashboard:tasks")
    /\ UNCHANGED <<dialect, walk, ended, db, deleted, tokens, now>>
    /\ Continue(p, "dashboard:pipeline",
                [tasks |-> [total |-> Cardinality(DOMAIN tasks),
                            completed |-> with("completed"),
                            pending |-> with("pending")]]
                @@ proc[p].row)

(* The pipeline statistics, GROUP BY stage, and the 200 *)
DashboardPipeline(p) ==
    /\ At(p, "dashboard:pipeline")
    /\ UNCHANGED <<dialect, walk, ended, db, deleted, tokens, now>>
    /\ Respond(p, 200, "", "",
               [pipeline |-> Breakdown(GroupByStage)] @@ proc[p].row)

(* GET /api/leads/stats/overview *)
LeadsStatsOverview(p) ==
    /\ At(p, "GET /api/leads/stats/overview")
    /\ UNCHANGED <<dialect, walk, ended, db, deleted, tokens, now>>
    /\ Respond(p, 200, "", "",
               [stages |-> Breakdown(GroupByStage),
                conversionRate |-> ConversionRate,
                totalLeads |-> Cardinality(DOMAIN leads)])

(* GET /api/reports/conversion: DATE_TRUNC is no function of SQLite, and
   the column the statement names, createdAt, is created_at in the table:
   the query fails on both databases. *)
ReportsConversion(p) ==
    /\ At(p, "GET /api/reports/conversion")
    /\ UNCHANGED <<dialect, walk, ended, db, deleted, tokens, now>>
    /\ Respond(p, 500, "DATABASE_ERROR", "SQL error", NoData)

----------------------------------------------------------------------------
(* The clock *)

Tick ==
    /\ last = NoExchange
    /\ now + ClockStep <= MaxClock
    /\ now' = now + ClockStep
    /\ UNCHANGED <<dialect, walk, ended, db, deleted, tokens, proc, last>>

(* The client reads the response; the next step of the server follows. *)
Deliver ==
    /\ last # NoExchange
    /\ last' = NoExchange
    /\ UNCHANGED <<dialect, walk, ended, db, deleted, tokens, now, proc>>


----------------------------------------------------------------------------
(* The database after sync and the seeder, scaled down: the administrator
   and the regular user, one customer, two leads, one task and one
   interaction. *)

SeedUsers ==
    (1 :> [email |-> "admin@crm.com",
           password |-> bcryptHash("admin123", "s1"), role |-> "admin"])
    @@ (2 :> [email |-> "user@crm.com",
              password |-> bcryptHash("user123", "s1"), role |-> "user"])

SeedCustomers ==
    (1 :> [name |-> "Acme Corporation", email |-> "contact@acme.com",
           phone |-> "+1-555-0123", company |-> "Acme Corp",
           tags |-> JSONstringify(<<<<"v", "i", "p">>, <<"b", "2", "b">>>>),
           notes |-> "Initial contact made"])

SeedLeads ==
    (1 :> [title |-> "Enterprise Software Deal", description |-> "",
           stage |-> "qualified", value |-> 50000, customer_id |-> 1,
           assigned_to |-> 1])
    @@ (2 :> [title |-> "Acme Corp Expansion", description |-> "",
              stage |-> "proposal", value |-> 25000, customer_id |-> 1,
              assigned_to |-> 2])

SeedTasks ==
    (1 :> [title |-> "Follow up with Acme Corp", description |-> "",
           status |-> "pending", priority |-> "high", dueDate |-> NullId,
           assignedTo |-> 1, customerId |-> 1])

SeedInteractions ==
    (1 :> [customer_id |-> 1, type |-> "call", notes |-> "Initial contact",
           date |-> 0, created_by |-> 1])

Init ==
    /\ dialect \in Dialects
    /\ users = SeedUsers
    /\ nextUserId = 3
    /\ deleted = {}
    /\ tokens = [p \in Procs |-> NoToken]
    /\ now = 0
    /\ customers = SeedCustomers
    /\ leads = SeedLeads
    /\ tasks = SeedTasks
    /\ interactions = SeedInteractions
    /\ nextLeadId = 3
    /\ nextTaskId = 2
    /\ nextCustomerId = 2
    /\ nextInteractionId = 2
    /\ walk = NoWalk
    /\ ended = {}
    /\ proc = [p \in Procs |-> Idle]
    /\ last = NoExchange

----------------------------------------------------------------------------
(* Spec: authentication and user management, one client.  Requests to the
   routes of the other routers are drawn with credentials their middleware refuses; their
   handlers are exercised by the specifications of those routers. *)

(* Authorization headers a client may send: none, a scheme without a token, a
   token the server never signed, and any token the server has issued that a
   client still holds. *)
Headers(p) ==
    {<<>>, <<"Bearer">>, <<"Bearer", ForgedToken>>}
    \cup {<<"Bearer", tokens[q]>> : q \in {q \in Procs : tokens[q] # NoToken}}

RegisterBodies ==
    {[name |-> "Ann", email |-> e, password |-> "secret1"] :
        e \in {"new@crm.com", "user@crm.com"}}
    \cup {[name |-> "Ann", email |-> "new@crm.com", password |-> "secret1",
           role |-> "admin"],
          [name |-> "Ann", email |-> "new@crm.com", password |-> "short"],
          [name |-> "A", email |-> "invalid-email", password |-> "secret1"],
          [name |-> "Ann", email |-> "new@crm.com", password |-> "secret1",
           role |-> "root"]}

LoginBodies ==
    {[email |-> e, password |-> w] :
        e \in {"admin@crm.com", "new@crm.com"},
        w \in {"admin123", "secret1", "short"}}
    \cup {[email |-> "user@crm.com", password |-> "user123"],
          [password |-> "secret1"]}

UserPutBodies ==
    {[role |-> r] : r \in Roles} \cup {[email |-> "new@crm.com"]}

(* Path parameters: the decimal numerals of the user ids, and for DELETE
   the same numbers written with an exponent (10e-1 is 1). *)
Numeral(n) == <<Digits[n + 1]>>
UserIds == {Numeral(n) : n \in 1 .. MaxUserId}
ScaledIds == {Numeral(n) \o <<"0", "e", "-", "1">> : n \in 1 .. MaxUserId}

Bodies(route) ==
    CASE route = "POST /api/auth/register" -> RegisterBodies
      [] route = "POST /api/auth/login" -> LoginBodies
      [] route = "PUT /api/users/:id" -> UserPutBodies
      [] OTHER -> {NoBody}

Ids(route) ==
    IF route = "DELETE /api/users/:id" THEN UserIds \cup ScaledIds
    ELSE IF route \in UserRoutes \ {"GET /api/users"} THEN UserIds
    ELSE {<<>>}

HandledBySpec == PublicRoutes \cup AuthRoutes \cup UserRoutes

Receive(p) ==
    /\ At(p, "idle")
    /\ \E route \in HandledBySpec, header \in Headers(p) :
         \E id \in Ids(route), body \in Bodies(route) :
           Request(p, route, header, id, body)

(* A request the middleware of another router refuses *)
ReceiveRefused(p) ==
    /\ At(p, "idle")
    /\ \E route \in Routes \ HandledBySpec, header \in Headers(p) :
         /\ ~Middleware(route, header, NoBody).ok
         /\ Request(p, route, header, <<>>, NoBody)

Next ==
    \/ Deliver
    \/ Tick
    \/ \E p \in {"c1"} :
        \/ Receive(p)
        \/ ReceiveRefused(p)
        \/ RegisterFind(p)
        \/ RegisterCreate(p)
        \/ Login(p)
        \/ Health(p)
        \/ ApiInfo(p)
        \/ Me(p)
        \/ Logout(p)
        \/ Refresh(p)
        \/ UsersList(p)
        \/ UsersGet(p)
        \/ UsersPutFind(p)
        \/ UsersPutUpdate(p)
        \/ UsersDeleteFind(p)
        \/ UsersDeleteDestroy(p)

Spec == Init /\ [][Next]_vars

----------------------------------------------------------------------------
(* SpecRace: two clients whose requests interleave at every await of the
   handlers: registration, login, the profile and the deletion of users. *)

RaceRoutes ==
    {"POST /api/auth/register", "POST /api/auth/login", "GET /api/auth/me",
     "DELETE /api/users/:id"}

RaceBodies(route) ==
    CASE route = "POST /api/auth/register" ->
            {[name |-> "Ann", email |-> "new@crm.com", password |-> "secret1"]}
      [] route = "POST /api/auth/login" ->
            {[email |-> "admin@crm.com", password |-> "admin123"],
             [email |-> "user@crm.com", password |-> "user123"]}
      [] OTHER -> {NoBody}

(* A public route reads no header; a protected one is sent a token that the
   server has issued and a client still holds. *)
RaceHeaders(route) ==
    IF route \in PublicRoutes THEN {<<>>}
    ELSE {<<"Bearer", tokens[q]>> : q \in {q \in Procs : tokens[q] # NoToken}}

ReceiveRace(p) ==
    /\ At(p, "idle")
    /\ \E route \in RaceRoutes :
         \E header \in RaceHeaders(route), id \in Ids(route),
            body \in RaceBodies(route) :
           Request(p, route, header, id, body)

NextRace ==
    \/ Deliver
    \/ \E p \in Procs :
        \/ ReceiveRace(p)
        \/ RegisterFind(p)
        \/ RegisterCreate(p)
        \/ Login(p)
        \/ Me(p)
        \/ UsersDeleteFind(p)
        \/ UsersDeleteDestroy(p)

SpecRace == Init /\ [][NextRace]_vars

----------------------------------------------------------------------------
(* SpecData: one client signs in and works on the leads or on the tasks.  The
   handlers of the leads router read and write no task and those of the
   tasks router no lead, so a run changes one of the two tables: requests to
   one router are sent while the table of the other is as seeded.  The
   routes of the other routers that declare a schema are sent bodies the
   schema refuses. *)

EmptyBody == <<>>

LeadIds == {Numeral(n) : n \in 1 .. MaxLeadId}
TaskIds == {Numeral(n) : n \in 1 .. MaxTaskId}

LeadBodies ==
    {[title |-> "Deal", customerId |-> 1],
     [title |-> "Deal", customerId |-> 1, assignedTo |-> 2, value |-> 100],
     [title |-> "Big deal", stage |-> "closed"],
     [title |-> "Deal", stage |-> "won"],
     [title |-> "A", stage |-> "won"],
     [stage |-> "lead"],
     [title |-> "Deal", customer_id |-> 1]}

StageBodies ==
    {[stage |-> t] : t \in Stages \cup {"won"}}
    \cup {EmptyBody, [stage |-> "lead", title |-> "Deal"]}

TaskBodies ==
    {[title |-> "Call"],
     [title |-> "Call", status |-> "in-progress", assignedTo |-> 2,
      customerId |-> 1],
     [title |-> "Call", assignedTo |-> MaxUserId],
     [title |-> "Call", status |-> "done"],
     [title |-> "Call", priority |-> "urgent"],
     [status |-> "pending"]}

StatusBodies == {[status |-> t] : t \in Statuses \cup {"done"}} \cup {EmptyBody}

DataBodies(route) ==
    CASE route = "POST /api/auth/login" ->
            {[email |-> "admin@crm.com", password |-> "admin123"],
             [email |-> "user@crm.com", password |-> "user123"],
             [email |-> "invalid-email", password |-> "user123"]}
      [] route \in {"POST /api/leads", "PUT /api/leads/:id"} -> LeadBodies
      [] route = "PUT /api/leads/:id/stage" -> StageBodies
      [] route \in {"POST /api/tasks", "PUT /api/tasks/:id"} -> TaskBodies
      [] route = "PUT /api/tasks/:id/status" -> StatusBodies
      [] OTHER -> {NoBody}

DataIds(route) ==
    CASE route \in {"GET /api/leads/:id", "PUT /api/leads/:id",
                    "PUT /api/leads/:id/stage", "DELETE /api/leads/:id"}
            -> LeadIds
      [] route \in {"PUT /api/tasks/:id", "PUT /api/tasks/:id/status"}
            -> TaskIds
      [] OTHER -> {<<>>}

DataHeaders(p) ==
    {<<"Bearer", tokens[q]>> : q \in {q \in Procs : tokens[q] # NoToken}}

HandledByData ==
    {"POST /api/auth/login", "POST /api/leads", "GET /api/leads/:id",
     "PUT /api/leads/:id", "PUT /api/leads/:id/stage", "DELETE /api/leads/:id",
     "POST /api/tasks", "PUT /api/tasks/:id", "PUT /api/tasks/:id/status"}

ReceiveData(p) ==
    /\ At(p, "idle")
    /\ \E route \in HandledByData,
          header \in DataHeaders(p) \cup {<<>>} :
         \E id \in DataIds(route), body \in DataBodies(route) :
           /\ route \in LeadRoutes => tasks = SeedTasks
           /\ route \in TaskRoutes => leads = SeedLeads
           /\ header = <<>> => route = "POST /api/auth/login"
           /\ Request(p, route, header, id, body)

(* Bodies that the schemas of the other routers refuse *)
InvalidBodies(route) ==
    CASE route = "POST /api/auth/register" ->
            {[name |-> "Ann", email |-> "new@crm.com", password |-> "short"],
             [email |-> "invalid-email", password |-> "short"]}
      [] route \in {"POST /api/customers", "PUT /api/customers/:id"} ->
            {[name |-> "A", email |-> "invalid-email"],
             [email |-> "new@crm.com"],
             [name |-> "Acme", owner |-> "Ann"]}
      [] OTHER ->
            {[type |-> "call"], [customerId |-> 1, type |-> "fax"],
             [customerId |-> 1]}

ReceiveInvalid(p) ==
    /\ At(p, "idle")
    /\ \E route \in {"POST /api/auth/register", "POST /api/customers",
                      "PUT /api/customers/:id", "POST /api/interactions",
                      "POST /api/customers/:id/interactions"},
          header \in DataHeaders(p) \cup {<<>>} :
         \E body \in InvalidBodies(route) :
           /\ ~Middleware(route, header, body).ok
           /\ Request(p, route, header, Numeral(1), body)

NextData ==
    \/ Deliver
    \/ \E p \in {"c1"} :
        \/ ReceiveData(p)
        \/ ReceiveInvalid(p)
        \/ Login(p)
        \/ LeadsCreate(p)
        \/ LeadsGet(p)
        \/ LeadsFind(p)
        \/ LeadsUpdate(p)
        \/ LeadsRefetch(p)
        \/ LeadsDestroy(p)
        \/ TasksCreate(p)
        \/ TasksCreated(p)
        \/ TasksFind(p)
        \/ TasksUpdate(p)
        \/ TasksRefetch(p)

SpecData == Init /\ [][NextData]_vars

----------------------------------------------------------------------------
(* SpecViews: one client registers or signs in and calls the routes whose
   responses carry a user: the auth routes, the users router, and the reads
   and creations of the other routers that include assignedUser or
   createdByUser. *)

ViewRequests ==
    {[route |-> "POST /api/auth/register", id |-> <<>>,
      body |-> [name |-> "Ann", email |-> "new@crm.com",
                password |-> "secret1"]],
     [route |-> "POST /api/auth/login", id |-> <<>>,
      body |-> [email |-> "admin@crm.com", password |-> "admin123"]],
     [route |-> "POST /api/auth/login", id |-> <<>>,
      body |-> [email |-> "user@crm.com", password |-> "user123"]],
     [route |-> "GET /api/auth/me", id |-> <<>>, body |-> NoBody],
     [route |-> "POST /api/auth/refresh", id |-> <<>>, body |-> NoBody],
     [route |-> "GET /api/users", id |-> <<>>, body |-> NoBody],
     [route |-> "POST /api/tasks", id |-> <<>>,
      body |-> [title |-> "Call", assignedTo |-> 2, customerId |-> 1]],
     [route |-> "POST /api/interactions", id |-> <<>>,
      body |-> [customerId |-> 1, type |-> "call"]],
     [route |-> "POST /api/customers/:id/interactions", id |-> Numeral(1),
      body |-> [customerId |-> 1, type |-> "note"]]}
    \cup {[route |-> r, id |-> i, body |-> NoBody] :
            r \in {"GET /api/users/:id", "GET /api/leads/:id",
                   "GET /api/tasks/:id"},
            i \in {Numeral(1), Numeral(2)}}
    \cup {[route |-> "PUT /api/users/:id", id |-> Numeral(2),
           body |-> [role |-> r]] : r \in Roles}

ReceiveViews(p) ==
    /\ At(p, "idle")
    /\ \E r \in ViewRequests, header \in DataHeaders(p) \cup {<<>>} :
         /\ header = <<>> <=> r.route \in PublicRoutes
         /\ Request(p, r.route, header, r.id, r.body)

NextViews ==
    \/ Deliver
    \/ \E p \in {"c1"} :
        \/ ReceiveViews(p)
        \/ RegisterFind(p)
        \/ RegisterCreate(p)
        \/ Login(p)
        \/ Me(p)
        \/ Refresh(p)
        \/ UsersList(p)
        \/ UsersGet(p)
        \/ UsersPutFind(p)
        \/ UsersPutUpdate(p)
        \/ LeadsGet(p)
        \/ TasksGet(p)
        \/ TasksCreate(p)
        \/ TasksCreated(p)
        \/ InteractionsFind(p)
        \/ CustomersFind(p)
        \/ InteractionsCreate(p)
        \/ InteractionsCreated(p)

SpecViews == Init /\ [][NextViews]_vars

----------------------------------------------------------------------------
(* SpecCustomers: the administrator signs in and works on the customers and
   on the rows that reference them.  Path parameters are the numerals of
   the ids up to one past the last id the run can create, and a word that
   is no number. *)

Text(word) == CASE word = "vip" -> <<"v", "i", "p">>
                [] word = "b2b" -> <<"b", "2", "b">>
                [] word = "quote" -> <<"5", "\"">>
                [] word = "backslash" -> <<"c", "\\", "d">>
                [] OTHER -> <<>>

CustomerBodies ==
    {[name |-> "Acme"],
     [name |-> "Acme", email |-> "new@crm.com", phone |-> "+1-555-0100",
      company |-> "Acme Corp", notes |-> "met at the fair",
      tags |-> <<Text("vip"), Text("b2b"), Text("vip")>>],
     [name |-> "Acme", tags |-> <<>>],
     [name |-> "Acme", tags |-> <<Text("quote"), Text("backslash")>>],
     [name |-> "Acme", tags |-> <<Text("")>>],
     [name |-> "Acme", email |-> ""]}

CustomerIds ==
    {Numeral(n) : n \in 1 .. MaxCustomerId + 1} \cup {<<"a", "b", "c">>}

CustomerRequests ==
    {[route |-> "POST /api/auth/login", id |-> <<>>,
      body |-> [email |-> "admin@crm.com", password |-> "admin123"]],
     [route |-> "POST /api/tasks", id |-> <<>>,
      body |-> [title |-> "Call", customerId |-> 1]],
     [route |-> "POST /api/interactions", id |-> <<>>,
      body |-> [customerId |-> 1, type |-> "call"]],
     [route |-> "POST /api/interactions", id |-> <<>>,
      body |-> [customerId |-> MaxCustomerId, type |-> "call"]]}
    \cup {[route |-> "POST /api/customers", id |-> <<>>, body |-> b] :
            b \in CustomerBodies}
    \cup {[route |-> "PUT /api/customers/:id", id |-> i, body |-> b] :
            i \in CustomerIds,
            b \in {[name |-> "Acme Ltd", tags |-> <<Text("b2b")>>],
                   [name |-> "Acme Ltd", email |-> ""]}}
    \cup {[route |-> r, id |-> i, body |-> NoBody] :
            r \in {"GET /api/customers/:id", "DELETE /api/customers/:id"},
            i \in CustomerIds}
    \cup {[route |-> "POST /api/customers/:id/interactions", id |-> i,
           body |-> b] :
            i \in CustomerIds,
            b \in {[customerId |-> 1, type |-> "note"], [type |-> "note"]}}
    \cup {[route |-> r, id |-> i, body |-> NoBody] :
            r \in {"GET /api/tasks/:id", "DELETE /api/tasks/:id"},
            i \in {Numeral(1), Numeral(MaxTaskId + 1), <<"a", "b", "c">>}}

ReceiveCustomers(p) ==
    /\ At(p, "idle")
    /\ \E r \in CustomerRequests, header \in DataHeaders(p) \cup {<<>>} :
         /\ header = <<>> <=> r.route \in PublicRoutes
         /\ Request(p, r.route, header, r.id, r.body)

NextCustomers ==
    \/ Deliver
    \/ \E p \in {"c1"} :
        \/ ReceiveCustomers(p)
        \/ Login(p)
        \/ CustomersCreate(p)
        \/ CustomersGet(p)
        \/ CustomersFind(p)
        \/ CustomersUpdate(p)
        \/ CustomersDestroy(p)
        \/ InteractionsFind(p)
        \/ InteractionsCreate(p)
        \/ InteractionsCreated(p)
        \/ TasksCreate(p)
        \/ TasksCreated(p)
        \/ TasksGet(p)
        \/ TasksDeleteFind(p)
        \/ TasksDestroy(p)

SpecCustomers == Init /\ [][NextCustomers]_vars

----------------------------------------------------------------------------
(* SpecOrphans: two clients signed in as the administrator; one deletes the
   seeded customer while the other creates interactions and tasks for it
   and moves a task to it, their handlers interleaving at every await. *)

OrphanRequests ==
    {[route |-> "POST /api/auth/login", id |-> <<>>,
      body |-> [email |-> "admin@crm.com", password |-> "admin123"]],
     [route |-> "DELETE /api/customers/:id", id |-> Numeral(1),
      body |-> NoBody],
     [route |-> "POST /api/interactions", id |-> <<>>,
      body |-> [customerId |-> 1, type |-> "call"]],
     [route |-> "POST /api/customers/:id/interactions", id |-> Numeral(1),
      body |-> [customerId |-> 1, type |-> "note"]],
     [route |-> "POST /api/tasks", id |-> <<>>,
      body |-> [title |-> "Call", customerId |-> 1]],
     [route |-> "PUT /api/tasks/:id", id |-> Numeral(1),
      body |-> [title |-> "Call", customerId |-> 1]]}

ReceiveOrphans(p) ==
    /\ At(p, "idle")
    /\ \E r \in OrphanRequests :
         \E header \in RaceHeaders(r.route) :
           Request(p, r.route, header, r.id, r.body)

NextOrphans ==
    \/ Deliver
    \/ \E p \in Procs :
        \/ ReceiveOrphans(p)
        \/ Login(p)
        \/ CustomersFind(p)
        \/ CustomersDestroy(p)
        \/ InteractionsFind(p)
        \/ InteractionsCreate(p)
        \/ InteractionsCreated(p)
        \/ TasksCreate(p)
        \/ TasksCreated(p)
        \/ TasksFind(p)
        \/ TasksUpdate(p)
        \/ TasksRefetch(p)

SpecOrphans == Init /\ [][NextOrphans]_vars

----------------------------------------------------------------------------
(* SpecLists: one client signs in and reads the lists page by page, and
   creates a task or an interaction in between.  The seeder inserts its
   leads with one bulkCreate; here three of them. *)

InitLists ==
    /\ dialect \in Dialects
    /\ users = SeedUsers
    /\ nextUserId = 3
    /\ deleted = {}
    /\ tokens = [p \in Procs |-> NoToken]
    /\ now = 0
    /\ customers = SeedCustomers
    /\ leads = SeedLeads @@ (3 :> [title |-> "Startup Package",
                                   description |-> "", stage |-> "lead",
                                   value |-> 15000, customer_id |-> 1,
                                   assigned_to |-> 2])
    /\ tasks = SeedTasks
    /\ interactions = SeedInteractions
    /\ nextLeadId = 4
    /\ nextTaskId = 2
    /\ nextCustomerId = 2
    /\ nextInteractionId = 2
    /\ walk = NoWalk
    /\ ended = {}
    /\ proc = [p \in Procs |-> Idle]
    /\ last = NoExchange

ListQueries ==
    {NoBody}
    \cup {[page |-> Numeral(n), limit |-> l] :
            n \in 1 .. 3,
            l \in {<<"1">>, <<"2">>, <<"1", ".", "5">>, <<"1", "e", "1">>}}

ListRequests ==
    {[route |-> "POST /api/auth/login", id |-> <<>>,
      body |-> [email |-> "user@crm.com", password |-> "user123"]],
     [route |-> "POST /api/tasks", id |-> <<>>,
      body |-> [title |-> "Call", priority |-> "high"]],
     [route |-> "POST /api/interactions", id |-> <<>>,
      body |-> [customerId |-> 1, type |-> "call"]]}
    \cup {[route |-> r, id |-> <<>>, body |-> q] :
            r \in {"GET /api/leads", "GET /api/tasks",
                   "GET /api/interactions"},
            q \in ListQueries}

ReceiveLists(p) ==
    /\ At(p, "idle")
    /\ \E r \in ListRequests, header \in DataHeaders(p) \cup {<<>>} :
         /\ header = <<>> <=> r.route \in PublicRoutes
         /\ Request(p, r.route, header, r.id, r.body)

NextLists ==
    \/ Deliver
    \/ \E p \in {"c1"} :
        \/ ReceiveLists(p)
        \/ Login(p)
        \/ List(p)
        \/ TasksCreate(p)
        \/ TasksCreated(p)
        \/ InteractionsFind(p)
        \/ InteractionsCreate(p)
        \/ InteractionsCreated(p)

SpecLists == InitLists /\ [][NextLists]_vars

----------------------------------------------------------------------------
(* SpecReports: a user signs in and reads the reports over a table of
   leads drawn from a family: total leads, of which closed are in stage
   closed and the others in stage lead.  On SQLite, where the column stage
   is TEXT, the family also holds tables with one row whose stage is none
   of the four. *)

StatTotals == {0, 1, 3, 7, MaxStatLeads}

StatLeads(total, closed, unknown) ==
    [l \in 1 .. total |->
        [title |-> "Deal", description |-> "",
         stage |-> IF l <= closed THEN "closed"
                   ELSE IF l <= closed + unknown THEN "won" ELSE "lead",
         value |-> 100, customer_id |-> 1, assigned_to |-> NullId]]

InitReports ==
    /\ dialect \in Dialects
    /\ users = SeedUsers
    /\ nextUserId = 3
    /\ deleted = {}
    /\ tokens = [p \in Procs |-> NoToken]
    /\ now = 0
    /\ customers = SeedCustomers
    /\ \E total \in StatTotals, unknown \in {0, 1} :
         \E closed \in 0 .. total - unknown :
           /\ unknown = 1 => dialect = "sqlite"
           /\ leads = StatLeads(total, closed, unknown)
           /\ nextLeadId = total + 1
    /\ tasks = SeedTasks
    /\ interactions = SeedInteractions
    /\ nextTaskId = 2
    /\ nextCustomerId = 2
    /\ nextInteractionId = 2
    /\ walk = NoWalk
    /\ ended = {}
    /\ proc = [p \in Procs |-> Idle]
    /\ last = NoExchange

ReportRequests ==
    {[route |-> "POST /api/auth/login", id |-> <<>>,
      body |-> [email |-> "admin@crm.com", password |-> "admin123"]]}
    \cup {[route |-> r, id |-> <<>>, body |-> NoBody] :
            r \in {"GET /api/reports/dashboard",
                   "GET /api/reports/dashboard-stats",
                   "GET /api/reports/conversion",
                   "GET /api/leads/stats/overview"}}

ReceiveReports(p) ==
    /\ At(p, "idle")
    /\ \E r \in ReportRequests, header \in DataHeaders(p) \cup {<<>>} :
         /\ header = <<>> <=> r.route \in PublicRoutes
         /\ Request(p, r.route, header, r.id, r.body)

NextReports ==
    \/ Deliver
    \/ \E p \in {"c1"} :
        \/ ReceiveReports(p)
        \/ Login(p)
        \/ ReportsDashboard(p)
        \/ DashboardLeads(p)
        \/ DashboardTasks(p)
        \/ DashboardPipeline(p)
        \/ LeadsStatsOverview(p)
        \/ ReportsConversion(p)

SpecReports == InitReports /\ [][NextReports]_vars

----------------------------------------------------------------------------
(* SpecLeadRace: two clients signed in as the regular user update, restage
   and delete the first seeded lead, their handlers interleaving at every
   await.  The requests arrive while the leads are as seeded: each run is
   one request, or two that race. *)

LeadRaceRequests ==
    {[route |-> "POST /api/auth/login", id |-> <<>>,
      body |-> [email |-> "user@crm.com", password |-> "user123"]],
     [route |-> "PUT /api/leads/:id", id |-> Numeral(1),
      body |-> [title |-> "Deal A", customerId |-> 1, stage |-> "proposal"]],
     [route |-> "PUT /api/leads/:id", id |-> Numeral(1),
      body |-> [title |-> "Deal B", customerId |-> 1, value |-> 100]],
     [route |-> "PUT /api/leads/:id", id |-> Numeral(1),
      body |-> [title |-> "Deal C", customerId |-> 1, stage |-> "closed"]],
     [route |-> "PUT /api/leads/:id/stage", id |-> Numeral(1),
      body |-> [stage |-> "lead"]],
     [route |-> "PUT /api/leads/:id/stage", id |-> Numeral(1),
      body |-> [stage |-> "closed"]],
     [route |-> "DELETE /api/leads/:id", id |-> Numeral(1), body |-> NoBody]}

ReceiveLeadRace(p) ==
    /\ At(p, "idle")
    /\ \E r \in LeadRaceRequests :
         \E header \in RaceHeaders(r.route) :
           /\ r.route \in LeadRoutes => leads = SeedLeads
           /\ Request(p, r.route, header, r.id, r.body)

NextLeadRace ==
    \/ Deliver
    \/ \E p \in Procs :
        \/ ReceiveLeadRace(p)
        \/ Login(p)
        \/ LeadsFind(p)
        \/ LeadsUpdate(p)
        \/ LeadsRefetch(p)
        \/ LeadsDestroy(p)

SpecLeadRace == Init /\ [][NextLeadRace]_vars

----------------------------------------------------------------------------
(* SpecRoles: two clients sign in, one as the administrator and one as the
   regular user; roles are changed through PUT /api/users/:id while both
   keep the tokens they were given, and GET /api/users is called with
   them. *)

RoleRequests ==
    {[route |-> "POST /api/auth/login", id |-> <<>>,
      body |-> [email |-> "admin@crm.com", password |-> "admin123"]],
     [route |-> "POST /api/auth/login", id |-> <<>>,
      body |-> [email |-> "user@crm.com", password |-> "user123"]],
     [route |-> "GET /api/users", id |-> <<>>, body |-> NoBody]}
    \cup {[route |-> "PUT /api/users/:id", id |-> Numeral(n),
           body |-> [role |-> r]] : n \in 1 .. 2, r \in Roles}

ReceiveRoles(p) ==
    /\ At(p, "idle")
    /\ \E r \in RoleRequests :
         \E header \in RaceHeaders(r.route) :
           Request(p, r.route, header, r.id, r.body)

NextRoles ==
    \/ Deliver
    \/ \E p \in Procs :
        \/ ReceiveRoles(p)
        \/ Login(p)
        \/ UsersList(p)
        \/ UsersPutFind(p)
        \/ UsersPutUpdate(p)

SpecRoles == Init /\ [][NextRoles]_vars

----------------------------------------------------------------------------
(* SpecSessions: one client signs in, logs out and refreshes while the clock
   advances by half the life of a token, and goes on presenting the tokens
   it holds or has held, also after a logout or a refresh of them; the
   administrator may delete the regular user. *)

(* The client reads the response; it notes the token of the first logout or
   refresh that was answered 200, and the route. *)
DeliverSession ==
    /\ last # NoExchange
    /\ last' = NoExchange
    /\ ended' = IF /\ last.route \in {"POST /api/auth/logout",
                                       "POST /api/auth/refresh"}
                   /\ last.status = 200
                   /\ ended = {}
                THEN ended \cup {[token |-> TokenOf(last.header),
                                   route |-> last.route]}
                ELSE ended
    /\ UNCHANGED <<dialect, walk, db, deleted, tokens, now, proc>>

TickSession ==
    /\ last = NoExchange
    /\ now + SessionStep <= MaxClock
    /\ now' = now + SessionStep
    /\ UNCHANGED <<dialect, walk, ended, db, deleted, tokens, proc, last>>

SessionHeaders(route) ==
    IF route \in PublicRoutes THEN {<<>>}
    ELSE {<<"Bearer", t>> :
            t \in {e.token : e \in ended}
                  \cup {tokens[q] : q \in {q \in Procs : tokens[q] # NoToken}}}

SessionRequests ==
    {[route |-> "POST /api/auth/login", id |-> <<>>,
      body |-> [email |-> "admin@crm.com", password |-> "admin123"]],
     [route |-> "POST /api/auth/login", id |-> <<>>,
      body |-> [email |-> "user@crm.com", password |-> "user123"]],
     [route |-> "DELETE /api/users/:id", id |-> Numeral(2), body |-> NoBody]}
    \cup {[route |-> r, id |-> <<>>, body |-> NoBody] :
            r \in {"POST /api/auth/logout", "POST /api/auth/refresh",
                   "GET /api/auth/me", "GET /api/users"}}

ReceiveSessions(p) ==
    /\ At(p, "idle")
    /\ \E r \in SessionRequests :
         \E header \in SessionHeaders(r.route) :
           Request(p, r.route, header, r.id, r.body)

NextSessions ==
    \/ DeliverSession
    \/ TickSession
    \/ \E p \in {"c1"} :
        \/ ReceiveSessions(p)
        \/ Login(p)
        \/ Logout(p)
        \/ Refresh(p)
        \/ Me(p)
        \/ UsersList(p)
        \/ UsersDeleteFind(p)
        \/ UsersDeleteDestroy(p)

SpecSessions == Init /\ [][NextSessions]_vars

----------------------------------------------------------------------------
(* SpecAdmins: two clients, the seeded administrator and one who registers
   with role admin, delete users; the ids are written as plain numerals,
   and the handlers interleave at every await. *)

AdminRequests ==
    {[route |-> "POST /api/auth/login", id |-> <<>>,
      body |-> [email |-> "admin@crm.com", password |-> "admin123"]],
     [route |-> "POST /api/auth/register", id |-> <<>>,
      body |-> [name |-> "Ann", email |-> "new@crm.com",
                password |-> "secret1", role |-> "admin"]]}
    \cup {[route |-> "DELETE /api/users/:id", id |-> Numeral(n),
           body |-> NoBody] : n \in 1 .. MaxUserId}

ReceiveAdmins(p) ==
    /\ At(p, "idle")
    /\ \E r \in AdminRequests :
         \E header \in RaceHeaders(r.route) :
           Request(p, r.route, header, r.id, r.body)

NextAdmins ==
    \/ Deliver
    \/ \E p \in Procs :
        \/ ReceiveAdmins(p)
        \/ RegisterFind(p)
        \/ RegisterCreate(p)
        \/ Login(p)
        \/ UsersDeleteFind(p)
        \/ UsersDeleteDestroy(p)

SpecAdmins == Init /\ [][NextAdmins]_vars

----------------------------------------------------------------------------
(* SpecDashboard: two clients signed in as the administrator; one reads a
   dashboard while the other restages or deletes a lead, or creates or
   completes a task, between the queries of the dashboard. *)

DashboardRequests ==
    {[route |-> "POST /api/auth/login", id |-> <<>>,
      body |-> [email |-> "admin@crm.com", password |-> "admin123"]],
     [route |-> "GET /api/reports/dashboard", id |-> <<>>, body |-> NoBody],
     [route |-> "PUT /api/leads/:id/stage", id |-> Numeral(1),
      body |-> [stage |-> "closed"]],
     [route |-> "DELETE /api/leads/:id", id |-> Numeral(1), body |-> NoBody],
     [route |-> "POST /api/tasks", id |-> <<>>, body |-> [title |-> "Call"]],
     [route |-> "PUT /api/tasks/:id/status", id |-> Numeral(1),
      body |-> [status |-> "completed"]]}

ReceiveDashboard(p) ==
    /\ At(p, "idle")
    /\ \E r \in DashboardRequests :
         \E header \in RaceHeaders(r.route) :
           Request(p, r.route, header, r.id, r.body)

NextDashboard ==
    \/ Deliver
    \/ \E p \in Procs :
        \/ ReceiveDashboard(p)
        \/ Login(p)
        \/ ReportsDashboard(p)
        \/ DashboardLeads(p)
        \/ DashboardTasks(p)
        \/ DashboardPipeline(p)
        \/ LeadsFind(p)
        \/ LeadsUpdate(p)
        \/ LeadsRefetch(p)
        \/ LeadsDestroy(p)
        \/ TasksCreate(p)
        \/ TasksCreated(p)
        \/ TasksFind(p)
        \/ TasksUpdate(p)
        \/ TasksRefetch(p)

SpecDashboard == Init /\ [][NextDashboard]_vars

----------------------------------------------------------------------------
(* Properties.  An exchange is what `last` holds: a request together with
   the response the server gave it. *)

Answered == last # NoExchange

(* The exchange carried a token that the server signed. *)
CarriesIssuedToken == Len(last.header) >= 2 /\ last.header[2].sig = "ok"

IsProtected(route) ==
    route \in AuthRoutes \cup UserRoutes \cup ReportAdminRoutes
              \cup ReportUserRoutes \cup CustomerRoutes \cup LeadRoutes
              \cup TaskRoutes \cup InteractionRoutes

(* C1: a request to a protected route that carries a token issued to a user
   who had been deleted when the request arrived is answered 401
   AUTHENTICATION_ERROR, and its handler does not run. *)
C1_DeletedUserTokenRejected ==
    (/\ Answered
     /\ IsProtected(last.route)
     /\ CarriesIssuedToken
     /\ last.header[2].userId \in last.gone)
    => /\ last.status = 401
       /\ last.code = "AUTHENTICATION_ERROR"
       /\ ~last.ran

(* C1 happens: a token issued to a user, presented after another client's
   DELETE /api/users/:id removed that user, is refused as "User not found". *)
C1_Witness ==
    /\ Answered
    /\ IsProtected(last.route)
    /\ CarriesIssuedToken
    /\ last.header[2].userId \in last.gone
    /\ last.at < last.header[2].exp
    /\ last.status = 401
    /\ last.error = "User not found"

(* The credential of the exchange: absent, not signed by the server, or
   signed and past its expiry when the request arrived. *)
TokenMissing == Len(last.header) < 2
TokenMalformed == Len(last.header) >= 2 /\ last.header[2].sig # "ok"
TokenExpired ==
    /\ Len(last.header) >= 2
    /\ last.header[2].sig = "ok"
    /\ last.at >= last.header[2].exp

Refused401 ==
    /\ last.status = 401
    /\ last.code = "AUTHENTICATION_ERROR"
    /\ ~last.ran
    /\ ~last.wrote

(* C2 as stated: every route other than registration, login and health
   answers a request without a token, with a malformed token or with an
   expired token 401 AUTHENTICATION_ERROR and changes no stored row. *)
C2_AllButThreeRoutesNeedToken ==
    (/\ Answered
     /\ last.route \notin {"POST /api/auth/register", "POST /api/auth/login",
                           "GET /api/health"}
     /\ (TokenMissing \/ TokenMalformed \/ TokenExpired))
    => Refused401

(* C2, amended: every route other than registration, login, health and the
   API info endpoint GET /api answers a request without a token, with a
   malformed token or with an expired token 401 AUTHENTICATION_ERROR, the
   three cases differing only in the message, and changes no stored row. *)
C2_ProtectedRoutesNeedToken ==
    (/\ Answered
     /\ last.route \notin {"POST /api/auth/register", "POST /api/auth/login",
                           "GET /api/health", "GET /api"})
    => /\ TokenMissing => Refused401 /\ last.error = "Access token required"
       /\ TokenMalformed => Refused401 /\ last.error = "Invalid token"
       /\ TokenExpired => Refused401 /\ last.error = "Token expired"

(* C2 happens: a token that has expired is refused on a mutating route. *)
C2_Witness ==
    /\ Answered
    /\ last.route = "DELETE /api/users/:id"
    /\ TokenExpired
    /\ last.header[2].userId \in DOMAIN users
    /\ last.status = 401
    /\ last.error = "Token expired"

(* The token of the exchange is signed, unexpired on arrival and names a
   stored user. *)
TokenValid ==
    /\ CarriesIssuedToken
    /\ last.at < last.header[2].exp
    /\ last.header[2].userId \in DOMAIN users

AdminGated ==
    {"GET /api/users", "GET /api/users/:id", "PUT /api/users/:id",
     "DELETE /api/users/:id", "GET /api/reports/dashboard",
     "GET /api/reports/conversion"}

Refused403 ==
    /\ last.status = 403
    /\ last.code = "AUTHORIZATION_ERROR"
    /\ ~last.ran
    /\ ~last.wrote

(* C3: the role gate answers a request without a resolved principal 401
   AUTHENTICATION_ERROR and a principal whose stored role is outside the
   declared set 403 AUTHORIZATION_ERROR; on the /api/users routes and on
   /api/reports/dashboard and /api/reports/conversion the handler runs only
   for an administrator, and a principal with role 'user' gets 403 with no
   read or write by the handler. *)
C3_RoleGate ==
    /\ \A roles \in SUBSET Roles :
          /\ ~requireRole(roles, NoUser).ok
          /\ requireRole(roles, NoUser).status = 401
          /\ requireRole(roles, NoUser).code = "AUTHENTICATION_ERROR"
    /\ (Answered /\ last.route \in AdminGated) =>
          /\ last.ran => last.user.role = "admin"
          /\ (/\ ~last.ran
              /\ TokenValid
              /\ users[last.header[2].userId].role # "admin") => Refused403

(* C3 happens: a principal whose stored role is 'user' is refused on an
   administrator's route. *)
C3_Witness ==
    /\ Answered
    /\ last.route \in {"GET /api/users", "GET /api/reports/conversion"}
    /\ TokenValid
    /\ users[last.header[2].userId].role = "user"
    /\ last.status = 403

(* The exchange is a login that names the email of a stored user. *)
LoginOfStoredUser ==
    /\ Answered
    /\ last.route = "POST /api/auth/login"
    /\ Has(last.body, "email") /\ Has(last.body, "password")
    /\ UsersWithEmail(last.body.email) # {}

(* The stored user a login names, and the password its hash was made from. *)
LoginUser == CHOOSE i \in UsersWithEmail(last.body.email) : TRUE
PasswordOf(i) == users[i].password.digest[2]

NoTokenIssued == ~Has(last.data, "token")

LoginSucceeds ==
    /\ last.status = 200
    /\ Has(last.data, "token")
    /\ last.data.token.sig = "ok"
    /\ last.data.token.userId = LoginUser
    /\ last.data.user.id = LoginUser

LoginRefused401 ==
    /\ last.status = 401
    /\ last.code = "AUTHENTICATION_ERROR"
    /\ NoTokenIssued

(* C8 as stated: login with a stored user's email and password returns 200
   and a token for that user's id; with any other password it returns 401
   AUTHENTICATION_ERROR and no token. *)
C8_LoginAnyOtherPassword401 ==
    LoginOfStoredUser =>
        IF last.body.password = PasswordOf(LoginUser) THEN LoginSucceeds
        ELSE LoginRefused401

(* C8, amended: login with a stored user's email and password returns 200
   and a token for that user's id; with any other password of at least 6
   characters it returns 401 AUTHENTICATION_ERROR, with a shorter one 400
   VALIDATION_ERROR, and in both cases no token. *)
C8_LoginByPassword ==
    LoginOfStoredUser =>
        IF last.body.password = PasswordOf(LoginUser) THEN LoginSucceeds
        ELSE IF Len(last.body.password) >= 6 THEN LoginRefused401
        ELSE /\ last.status = 400
             /\ last.code = "VALIDATION_ERROR"
             /\ NoTokenIssued

(* C8 happens: a user registered through the API signs in with the password
   of the registration. *)
C8_Witness ==
    /\ LoginOfStoredUser
    /\ last.body.email = "new@crm.com"
    /\ last.body.password = PasswordOf(LoginUser)
    /\ LoginSucceeds

(* C8 happens: a wrong password of valid length is refused. *)
C8_WitnessWrongPassword ==
    /\ LoginOfStoredUser
    /\ last.body.password # PasswordOf(LoginUser)
    /\ Len(last.body.password) >= 6
    /\ LoginRefused401

(* The exchange is a DELETE /api/users/:id that reached its handler. *)
DeleteHandled == Answered /\ last.route = "DELETE /api/users/:id" /\ last.ran

(* C10: a DELETE /api/users/:id whose id is the id of the principal is
   answered 400 VALIDATION_ERROR and changes no table, and no delete request
   removes the user who sent it. *)
C10_NoSelfDelete ==
    /\ (DeleteHandled /\ last.id = Numeral(last.user.id)) =>
          /\ last.status = 400
          /\ last.code = "VALIDATION_ERROR"
          /\ ~last.wrote
    /\ DeleteHandled => last.user.id \in DOMAIN users

(* C10 fails: a delete request was answered 200 and the row of the principal
   who sent it is gone. *)
C10_SelfDeleted ==
    /\ DeleteHandled
    /\ last.status = 200
    /\ last.user.id \in deleted \ last.gone

(* The exchange is a registration that reached its handler. *)
RegisterHandled ==
    Answered /\ last.route = "POST /api/auth/register" /\ last.ran

(* C9: a registration that reaches the handler either creates the user and
   is answered 201, or finds the email held by a stored user, creates nothing
   and is answered 409 DUPLICATE_ENTRY; of two concurrent registrations with
   the same new email one gets 201 and the other 409. *)
C9_DuplicateEmailConflict ==
    RegisterHandled =>
        \/ /\ last.status = 201
           /\ last.wrote
           /\ Cardinality(UsersWithEmail(last.body.email)) = 1
        \/ /\ last.status = 409
           /\ last.code = "DUPLICATE_ENTRY"
           /\ ~last.wrote

(* C9 fails: two registrations with the same new email both passed the
   findOne check, and the one whose User.create came second is answered 500
   DATABASE_ERROR. *)
C9_LoserAnswered500 ==
    /\ RegisterHandled
    /\ last.status = 500
    /\ last.code = "DATABASE_ERROR"
    /\ ~last.wrote
    /\ UsersWithEmail(last.body.email) # {}

(* The routes that mount validate(<schema>). *)
SchemaRoutes ==
    {"POST /api/auth/register", "POST /api/auth/login", "POST /api/customers",
     "PUT /api/customers/:id", "POST /api/customers/:id/interactions",
     "POST /api/leads", "PUT /api/leads/:id", "PUT /api/leads/:id/stage",
     "POST /api/tasks", "PUT /api/tasks/:id", "PUT /api/tasks/:id/status",
     "POST /api/interactions"}

(* The request got past authentication and the role gate of its route. *)
PassedGates ==
    \/ last.route \in {"POST /api/auth/register", "POST /api/auth/login"}
    \/ TokenValid

TablesAsBefore == Snapshot = last.pre

Refused400 ==
    /\ last.status = 400
    /\ last.code = "VALIDATION_ERROR"
    /\ ~last.ran
    /\ ~last.wrote
    /\ TablesAsBefore

(* C4: on a route that declares a schema, a body that violates the schema is
   answered 400 VALIDATION_ERROR with the message of the first failure (for
   a title of one character and a stage outside the list: the title's), the
   handler does not run and every table is as it was before the request. *)
C4_SchemaViolationRejected ==
    (Answered /\ last.route \in SchemaRoutes /\ PassedGates) =>
        /\ SchemaErrors(last.route, last.body) # <<>> =>
              /\ Refused400
              /\ last.error = Head(SchemaErrors(last.route, last.body))
        /\ (/\ last.route \in {"POST /api/leads", "PUT /api/leads/:id"}
            /\ last.body = [title |-> "A", stage |-> "won"]) =>
              /\ Refused400
              /\ last.error = "Title must be at least 2 characters long"

(* C4 happens: an update of a stored lead with two failures in its body is
   refused with the message of the first. *)
C4_Witness ==
    /\ Answered
    /\ last.route = "PUT /api/leads/:id"
    /\ last.id = Numeral(1)
    /\ TokenValid
    /\ last.body = [title |-> "A", stage |-> "won"]
    /\ last.status = 400
    /\ last.error = "Title must be at least 2 characters long"

(* The request carries a stage, or a status, outside the enumeration. *)
CarriesBadStage ==
    /\ last.route \in {"POST /api/leads", "PUT /api/leads/:id",
                        "PUT /api/leads/:id/stage"}
    /\ Has(last.body, "stage")
    /\ last.body.stage \notin {"lead", "qualified", "proposal", "closed"}

CarriesBadStatus ==
    /\ last.route \in {"POST /api/tasks", "PUT /api/tasks/:id",
                        "PUT /api/tasks/:id/status"}
    /\ Has(last.body, "status")
    /\ last.body.status \notin {"pending", "in-progress", "completed"}

(* C5: every stored lead has a stage of the enumeration and every stored
   task a status of the enumeration; a create, update or transition request
   that carries another value is answered 400 VALIDATION_ERROR and leaves the
   tables as they were. *)
C5_StageAndStatusInEnum ==
    /\ \A i \in DOMAIN leads :
          leads[i].stage \in {"lead", "qualified", "proposal", "closed"}
    /\ \A i \in DOMAIN tasks :
          tasks[i].status \in {"pending", "in-progress", "completed"}
    /\ (Answered /\ TokenValid /\ (CarriesBadStage \/ CarriesBadStatus))
          => Refused400

(* C5 happens: a status outside the enumeration is refused for a stored
   task. *)
C5_Witness ==
    /\ Answered
    /\ TokenValid
    /\ CarriesBadStatus
    /\ last.route = "PUT /api/tasks/:id/status"
    /\ last.id = Numeral(1)
    /\ 1 \in DOMAIN tasks
    /\ last.status = 400

(* The exchange is a PUT /api/leads/:id/stage that reached its handler and
   whose id is the numeral of a lead stored when it arrived. *)
StageOfStoredLead ==
    /\ Answered
    /\ last.route = "PUT /api/leads/:id/stage"
    /\ last.ran
    /\ \E i \in DOMAIN last.pre.leads : last.id = Numeral(i)

StagedLead == CHOOSE i \in DOMAIN last.pre.leads : last.id = Numeral(i)

(* C6: a PUT /api/leads/:id/stage with a valid stage t for a stored lead of
   stage s is answered 200 with oldStage = s, newStage = t and the lead as
   stored afterwards; the stored lead has stage t and its other fields, and
   all other leads, are as before. *)
C6_StageTransition ==
    StageOfStoredLead =>
        /\ last.status = 200
        /\ last.data.oldStage = last.pre.leads[StagedLead].stage
        /\ last.data.newStage = last.body.stage
        /\ last.data.lead.id = StagedLead
        /\ last.data.lead.values = leads[StagedLead]
        /\ leads = [last.pre.leads EXCEPT ![StagedLead].stage = last.body.stage]

(* C6 happens: a stored lead is moved from one stage to a different one. *)
C6_Witness ==
    /\ StageOfStoredLead
    /\ last.status = 200
    /\ last.data.oldStage = "qualified"
    /\ last.data.newStage = "closed"
    /\ leads[StagedLead].stage = "closed"

(* The exchange is a POST /api/leads that reached its handler with the
   customerId of a stored customer and no stage. *)
CreateLeadForCustomer ==
    /\ Answered
    /\ last.route = "POST /api/leads"
    /\ last.ran
    /\ Has(last.body, "customerId")
    /\ last.body.customerId \in DOMAIN customers
    /\ ~Has(last.body, "stage")

(* C7: a POST /api/leads with a valid title, the customerId of a stored
   customer and no stage is answered 201 and stores a lead of that customer
   with stage 'lead'; the lead of the response carries the customer. *)
C7_CreateLeadForCustomer ==
    CreateLeadForCustomer =>
        /\ last.status = 201
        /\ last.data.lead.id \in DOMAIN leads \ DOMAIN last.pre.leads
        /\ last.data.lead.values.stage = "lead"
        /\ last.data.lead.values.customer_id = last.body.customerId
        /\ last.data.lead.customer.id = last.body.customerId

(* C7 fails: the request is answered 500 DATABASE_ERROR and no lead is
   stored. *)
C7_CreateAnswered500 ==
    /\ CreateLeadForCustomer
    /\ last.status = 500
    /\ last.code = "DATABASE_ERROR"
    /\ leads = last.pre.leads

----------------------------------------------------------------------------
(* The user objects of a response body: user, the elements of users, and
   the assignedUser / createdByUser of a lead, task or interaction *)
UserObjects(d) ==
    (IF Has(d, "user") THEN {d.user} ELSE {})
    \cup (IF Has(d, "users") THEN d.users ELSE {})
    \cup UNION {
          {d[k][a] : a \in {a \in {"assignedUser", "createdByUser"} :
                              Has(d[k], a) /\ d[k][a] # NoValue}} :
          k \in {k \in {"lead", "task", "interaction"} :
                   Has(d, k) /\ d[k] # NoValue}}

(* C11: no response body of any endpoint, register, login, me, refresh, the
   user list, read and update, and the user objects embedded in lead, task
   and interaction responses, contains a user's password field. *)
C11_NoPasswordInResponses ==
    Answered => \A u \in UserObjects(last.data) : ~Has(u, "password")

C11_Witness_Embedded ==
    /\ Answered /\ last.route = "POST /api/interactions" /\ last.status = 201
    /\ last.data.interaction.createdByUser.id = last.user.id
    /\ Has(last.user, "password")

----------------------------------------------------------------------------
(* The customer a successful DELETE /api/customers/:id removed: the stored
   customer the path parameter named when the request arrived *)
DeletedCustomer ==
    CHOOSE i \in DOMAIN last.pre.customers : i \notin DOMAIN customers

CustomerDeleted ==
    /\ Answered /\ last.route = "DELETE /api/customers/:id"
    /\ last.status = 200

(* C12: after a successful DELETE /customers/:id no lead, task or
   interaction that referenced that customer remains stored, and no row of
   any other customer is removed or changed. *)
C12_DeleteCascades ==
    CustomerDeleted =>
        LET id == DeletedCustomer
            Swept(before, after, column) ==
                /\ \A i \in DOMAIN before :
                      before[i][column] = id => i \notin DOMAIN after
                /\ \A i \in DOMAIN before :
                      before[i][column] # id =>
                          i \in DOMAIN after /\ after[i] = before[i]
        IN  /\ Swept(last.pre.leads, leads, "customer_id")
            /\ Swept(last.pre.tasks, tasks, "customerId")
            /\ Swept(last.pre.interactions, interactions, "customer_id")
            /\ \A c \in DOMAIN last.pre.customers \ {id} :
                  c \in DOMAIN customers /\ customers[c] = last.pre.customers[c]

(* The state the deletion ends in: the task of the deleted customer is
   stored, detached from it; its leads and interactions are gone. *)
C12_TaskKept ==
    /\ CustomerDeleted
    /\ \E t \in DOMAIN tasks :
          /\ last.pre.tasks[t].customerId = DeletedCustomer
          /\ tasks[t] = [last.pre.tasks[t] EXCEPT !.customerId = NullId]
    /\ Referencing(last.pre.leads, "customer_id", DeletedCustomer) # {}
    /\ Referencing(leads, "customer_id", DeletedCustomer) = {}
    /\ Referencing(interactions, "customer_id", DeletedCustomer) = {}

----------------------------------------------------------------------------
UserDeleted ==
    /\ Answered /\ last.route = "DELETE /api/users/:id" /\ last.status = 200

(* The user a successful DELETE /api/users/:id removed *)
DeletedUser == CHOOSE i \in DOMAIN last.pre.users : i \notin DOMAIN users

(* C13: after a successful DELETE /api/users/:id of a user U, every lead
   that was assigned to U still exists with all of its fields unchanged
   except the assignment, which is null; no lead is deleted. *)
C13_DeleteUserKeepsLeads ==
    UserDeleted =>
        /\ DOMAIN leads = DOMAIN last.pre.leads
        /\ \A l \in DOMAIN last.pre.leads :
              leads[l] = IF last.pre.leads[l].assigned_to = DeletedUser
                         THEN [last.pre.leads[l] EXCEPT !.assigned_to = NullId]
                         ELSE last.pre.leads[l]

C13_Witness ==
    /\ UserDeleted
    /\ \E l \in DOMAIN leads :
          /\ last.pre.leads[l].assigned_to = DeletedUser
          /\ leads[l].assigned_to = NullId
          /\ leads[l].title = last.pre.leads[l].title

----------------------------------------------------------------------------
(* C14: in every reachable state, every stored lead, task or interaction
   that references a customer references one that exists, under any
   interleaving of create and update requests with a concurrent deletion
   of the customer, including an interaction creation whose existence
   check passed before the customer was deleted. *)
C14_ReferencesResolve ==
    /\ \A l \in DOMAIN leads : leads[l].customer_id \in DOMAIN customers
    /\ \A t \in DOMAIN tasks :
          tasks[t].customerId # NullId =>
              tasks[t].customerId \in DOMAIN customers
    /\ \A i \in DOMAIN interactions :
          interactions[i].customer_id \in DOMAIN customers

(* An interaction creation that found the customer and then lost it to a
   concurrent deletion: the insert is refused. *)
C14_Witness ==
    /\ Answered
    /\ last.route \in {"POST /api/interactions",
                       "POST /api/customers/:id/interactions"}
    /\ last.status = 500
    /\ 1 \in DOMAIN last.pre.customers
    /\ 1 \notin DOMAIN customers
    /\ nextInteractionId = 2

----------------------------------------------------------------------------
(* The table a route with a path parameter addresses, as it was when the
   request arrived *)
AddressedTable ==
    CASE last.route \in {"GET /api/customers/:id", "PUT /api/customers/:id",
                         "DELETE /api/customers/:id"} -> last.pre.customers
      [] last.route \in {"GET /api/tasks/:id", "DELETE /api/tasks/:id"}
            -> last.pre.tasks
      [] OTHER -> <<>>

(* A request that passed the middleware, addressed to an id that names no
   stored row under any reading of the path parameter *)
AddressedToMissing ==
    /\ Answered /\ last.ran
    /\ last.route \in {"GET /api/customers/:id", "PUT /api/customers/:id",
                       "DELETE /api/customers/:id", "GET /api/tasks/:id",
                       "DELETE /api/tasks/:id"}
    /\ SqliteNumeric(last.id) \cap DOMAIN AddressedTable = {}

(* C15: a read, update or delete addressed to an id that does not exist,
   never created or already deleted, returns 404 NOT_FOUND and changes no
   stored row. *)
C15_MissingIsNotFound ==
    AddressedToMissing =>
        /\ last.status = 404 /\ last.code = "NOT_FOUND"
        /\ ~last.wrote

(* The read of an id that names no row, on PostgreSQL: the lookup throws
   and the handler answers 500. *)
C15_MissingAnswered500 ==
    /\ AddressedToMissing
    /\ dialect = "postgres"
    /\ last.route = "GET /api/customers/:id"
    /\ last.status = 500 /\ last.code = "DATABASE_ERROR"
    /\ ~last.wrote

(* A customer deleted earlier: the read and the second delete answer 404 *)
C15_DeletedIsNotFound ==
    /\ AddressedToMissing
    /\ last.route = "DELETE /api/customers/:id"
    /\ last.id = Numeral(1)
    /\ last.status = 404

----------------------------------------------------------------------------
CustomerCreateHandled ==
    Answered /\ last.ran /\ last.route = "POST /api/customers"

(* C16: for every customer creation payload the schema accepts, the
   returned customer's name, email, phone, company, tags (same order,
   duplicates kept) and notes equal the input, and a read by id of the new
   customer returns the same representation. *)
C16_CreateReturnsInput ==
    CustomerCreateHandled =>
        /\ last.status = 201
        /\ \A k \in DOMAIN last.body \cap CustomerAttributes :
              last.data.customer.values[k] = last.body[k]
        /\ last.data.customer.id \in DOMAIN customers
        /\ CustomerJSON(last.data.customer.id,
                        customers[last.data.customer.id]) = last.data.customer

(* A payload the schema accepts and the model's validator refuses *)
C16_EmptyEmailAnswered500 ==
    /\ CustomerCreateHandled
    /\ last.body = [name |-> "Acme", email |-> ""]
    /\ last.status = 500 /\ last.code = "DATABASE_ERROR"
    /\ customers = last.pre.customers

(* Tags with a quote and a backslash come back as sent *)
C16_TagsRoundTrip ==
    /\ CustomerCreateHandled
    /\ last.status = 201
    /\ Has(last.body, "tags")
    /\ last.body.tags = <<Text("quote"), Text("backslash")>>
    /\ last.data.customer.values.tags = last.body.tags
    /\ customers[last.data.customer.id].tags # last.body.tags

----------------------------------------------------------------------------
ListAnswered ==
    /\ Answered /\ last.status = 200
    /\ last.route \in {"GET /api/leads", "GET /api/tasks",
                       "GET /api/interactions"}

(* C17: for every list request the endpoint answers, the pagination block
   has total = N, the number of matching rows, and pages = ceil(N / limit),
   limit being the numeric limit applied to the query. *)
C17_PaginationBlock ==
    ListAnswered =>
        LET N == Cardinality(DOMAIN ListTable(last.route))
            pagination == last.data.pagination
        IN  /\ pagination.total = N
            /\ \A l \in pagination.limit :
                  l > 0 => pagination.pages = {(N + l - 1) \div l}

(* limit=1.5 over three leads: LIMIT 1 is applied, pages is ceil(3 / 1.5) *)
C17_FractionalLimit ==
    /\ ListAnswered
    /\ last.route = "GET /api/leads"
    /\ last.body = [page |-> <<"1">>, limit |-> <<"1", ".", "5">>]
    /\ last.data.pagination = [page |-> {1}, limit |-> {1}, total |-> 3,
                               pages |-> {2}]
    /\ Len(last.data.rows) = 1

----------------------------------------------------------------------------
(* The rows of the pages read so far, in the order received *)
WalkRows ==
    LET RECURSIVE Concat(_)
        Concat(pages) ==
            IF pages = <<>> THEN <<>> ELSE Head(pages) \o Concat(Tail(pages))
    IN  Concat(walk.pages)

(* A client has read pages 1 .. ceil(N / L) of a list in a row, with a
   limit L written as a positive integer, and the table has not changed *)
WalkComplete ==
    /\ walk.route # ""
    /\ IsInteger(walk.limit)
    /\ walk.of = ListTable(walk.route)
    /\ \E L \in parseInt(walk.limit) \ {0} :
          Len(walk.pages) = (Cardinality(DOMAIN walk.of) + L - 1) \div L

(* C18: for N matching rows and limit L, the rows of pages 1 .. ceil(N / L)
   of a list endpoint, concatenated, are the matching rows with each row
   exactly once, also when several rows share the same sort key. *)
C18_PagesPartitionRows ==
    WalkComplete =>
        /\ Len(WalkRows) = Cardinality(DOMAIN walk.of)
        /\ {WalkRows[i] : i \in 1 .. Len(WalkRows)} = DOMAIN walk.of

(* Three leads with one createdAt, read with limit=1 on PostgreSQL: a lead
   is returned on two pages and another on none. *)
C18_RowOnTwoPages ==
    /\ WalkComplete
    /\ dialect = "postgres"
    /\ walk.route = "GET /api/leads"
    /\ walk.limit = <<"1">>
    /\ Len(WalkRows) = 3
    /\ WalkRows[1] = WalkRows[2]
    /\ \E l \in DOMAIN leads : \A i \in 1 .. 3 : WalkRows[i] # l

----------------------------------------------------------------------------
(* A response that reports a conversion rate, and the counts it is of *)
RateReported ==
    /\ Answered /\ last.status = 200
    /\ last.route \in {"GET /api/reports/dashboard",
                       "GET /api/reports/dashboard-stats",
                       "GET /api/leads/stats/overview"}

ReportedRate ==
    IF last.route = "GET /api/leads/stats/overview"
    THEN last.data.conversionRate ELSE last.data.leads.conversionRate

TotalLeads == Cardinality(DOMAIN leads)
ClosedLeads == Cardinality({l \in DOMAIN leads : leads[l].stage = "closed"})

(* C19 as stated: the conversion rate is 0 when there are no leads, else
   C / T * 100 rounded to 2 decimal places, a half rounded up, and it is
   between 0 and 100.  Rates are in hundredths. *)
C19_RateRoundedHalfUp ==
    RateReported =>
        /\ ReportedRate >= 0 /\ ReportedRate <= 10000
        /\ TotalLeads = 0 => ReportedRate = 0
        /\ TotalLeads > 0 =>
              ReportedRate =
                  (20000 * ClosedLeads + TotalLeads) \div (2 * TotalLeads)

(* C19, amended: the conversion rate is 0 when there are no leads, else a
   multiple of 0.01 nearest to C / T * 100, either of the two when
   C / T * 100 is halfway between them; it is between 0 and 100. *)
C19_RateIsNearestHundredth ==
    RateReported =>
        /\ ReportedRate >= 0 /\ ReportedRate <= 10000
        /\ TotalLeads = 0 => ReportedRate = 0
        /\ TotalLeads > 0 =>
              LET distance == 2 * ReportedRate * TotalLeads
                              - 20000 * ClosedLeads
              IN  distance <= TotalLeads /\ -distance <= TotalLeads

(* 23 of 160 leads closed, 14.375 per cent: reported as 14.37 *)
C19_Witness ==
    /\ RateReported
    /\ TotalLeads = 160 /\ ClosedLeads = 23
    /\ ReportedRate = 1437

----------------------------------------------------------------------------
DashboardAnswered ==
    /\ Answered /\ last.status = 200
    /\ last.route \in {"GET /api/reports/dashboard",
                       "GET /api/reports/dashboard-stats"}

LeadsInStage(t) == Cardinality({l \in DOMAIN leads : leads[l].stage = t})

(* C20: the stage breakdown of the dashboard endpoints has exactly the four
   keys lead, qualified, proposal and closed; a stage with no leads
   reports 0, each key reports the number of stored leads in that stage,
   and a stage outside the four returned by the grouping query adds no
   key. *)
C20_BreakdownHasFourKeys ==
    DashboardAnswered =>
        /\ DOMAIN last.data.pipeline = Stages
        /\ \A t \in Stages : last.data.pipeline[t] = LeadsInStage(t)

(* A lead in a stage that is none of the four: the breakdown has a fifth
   key, beside the four with their counts *)
C20_FifthKey ==
    /\ DashboardAnswered
    /\ LeadsInStage("won") = 1
    /\ DOMAIN last.data.pipeline = Stages \cup {"won"}
    /\ last.data.pipeline["won"] = 1
    /\ \A t \in Stages : last.data.pipeline[t] = LeadsInStage(t)

----------------------------------------------------------------------------
(* The exchange asked to add an interaction to a customer that was stored
   when the request arrived, under a valid token, with a body that holds a
   valid type and does not name the customer a second time. *)
AddsInteractionByPath ==
    /\ Answered
    /\ last.route = "POST /api/customers/:id/interactions"
    /\ TokenValid
    /\ DOMAIN last.body \subseteq {"type", "notes", "date"}
    /\ Has(last.body, "type")
    /\ last.body.type \in InteractionTypes
    /\ findByPk(last.pre.customers, last.id).keys # {}

(* C21: POST /customers/:id/interactions with a body of a valid type only,
   for a stored customer :id, is answered 201 and stores an interaction of
   that customer attributed to the authenticated user. *)
C21_InteractionAddedByPath ==
    AddsInteractionByPath =>
        /\ last.status = 201
        /\ \E i \in DOMAIN interactions \ DOMAIN last.pre.interactions :
             /\ {interactions[i].customer_id}
                  = findByPk(last.pre.customers, last.id).keys
             /\ interactions[i].created_by = last.header[2].userId

(* C21 fails: the body [type |-> "note"] sent for the seeded customer is
   refused by the schema, which requires customerId, and nothing is stored. *)
C21_TypeOnlyBodyRefused ==
    /\ AddsInteractionByPath
    /\ last.id = Numeral(1)
    /\ last.body = [type |-> "note"]
    /\ Refused400
    /\ last.error = "Customer is required"
    /\ interactions = last.pre.interactions

----------------------------------------------------------------------------
(* The exchange asked to create or update a lead or a task under a valid
   token, with a body its schema accepts that names a customer or a user
   missing from the tables when the request arrived; an update addresses a
   stored row. *)
ReferencesMissingRow ==
    /\ Answered
    /\ last.route \in {"POST /api/leads", "PUT /api/leads/:id",
                       "POST /api/tasks", "PUT /api/tasks/:id"}
    /\ TokenValid
    /\ SchemaErrors(last.route, last.body) = <<>>
    /\ last.route = "PUT /api/leads/:id"
          => findByPk(last.pre.leads, last.id).keys # {}
    /\ last.route = "PUT /api/tasks/:id"
          => findByPk(last.pre.tasks, last.id).keys # {}
    /\ \/ /\ Has(last.body, "customerId")
          /\ last.body.customerId \notin DOMAIN last.pre.customers
       \/ /\ Has(last.body, "assignedTo")
          /\ last.body.assignedTo \notin DOMAIN last.pre.users

(* C22: a create or update of a lead or task whose body passes validation
   and references a customer or user that does not exist is answered 400
   FOREIGN_KEY_ERROR and stores nothing. *)
C22_MissingReferenceIs400 ==
    ReferencesMissingRow =>
        /\ last.status = 400
        /\ last.code = "FOREIGN_KEY_ERROR"
        /\ TablesAsBefore

(* C22 fails: a task assigned to a user that does not exist is refused by
   the foreign key, and the handler's catch answers 500 DATABASE_ERROR;
   nothing is stored. *)
C22_MissingReferenceAnswered500 ==
    /\ ReferencesMissingRow
    /\ last.route = "POST /api/tasks"
    /\ last.body = [title |-> "Call", assignedTo |-> MaxUserId]
    /\ last.status = 500
    /\ last.code = "DATABASE_ERROR"
    /\ TablesAsBefore

----------------------------------------------------------------------------
(* The exchange is a PUT of a customer, a lead or a task answered 200. *)
PutSucceeded ==
    /\ Answered
    /\ last.route \in {"PUT /api/customers/:id", "PUT /api/leads/:id",
                       "PUT /api/tasks/:id"}
    /\ last.status = 200

(* The row the PUT addressed, as it was when the request arrived and as it
   is stored now. *)
PutTable(snapshot) ==
    CASE last.route = "PUT /api/customers/:id" -> snapshot.customers
      [] last.route = "PUT /api/leads/:id" -> snapshot.leads
      [] OTHER -> snapshot.tasks

PutKey == CHOOSE i \in findByPk(PutTable(last.pre), last.id).keys : TRUE

(* The optional fields of the create schema of the PUT's resource, each with
   the value a create stores when the body omits it (no text is written as
   the empty text). *)
OmittedValues ==
    CASE last.route = "PUT /api/customers/:id" ->
            [email |-> "", phone |-> "", company |-> "", tags |-> <<>>,
             notes |-> ""]
      [] last.route = "PUT /api/leads/:id" ->
            [description |-> "", stage |-> "lead", value |-> NullId]
      [] OTHER ->
            [description |-> "", status |-> "pending", priority |-> "medium",
             dueDate |-> NullId]

(* C23: after a successful PUT on a customer, lead or task, an optional
   field the body omits does not keep its previous stored value: the stored
   row holds what a create with that body stores (full-body replacement),
   and the answer is 200. *)
C23_PutReplacesRow ==
    PutSucceeded =>
        \A k \in DOMAIN OmittedValues :
            (~Has(last.body, k) /\ Has(PutTable(Snapshot)[PutKey], k)) =>
                PutTable(Snapshot)[PutKey][k] = OmittedValues[k]

(* C23 fails: PUT /api/leads/1 with a body of title and customerId leaves
   the stage and the value of the stored lead as they were (qualified,
   50000), not the values of a create. *)
C23_OmittedFieldKept ==
    /\ PutSucceeded
    /\ last.route = "PUT /api/leads/:id"
    /\ last.id = Numeral(1)
    /\ last.body = [title |-> "Deal", customerId |-> 1]
    /\ last.pre.leads[1].stage = "qualified"
    /\ leads[1].stage = "qualified"
    /\ leads[1].value = 50000
    /\ leads[1].title = "Deal"
    /\ last.data.lead.values = leads[1]

----------------------------------------------------------------------------
(* Both clients have a PUT /api/leads/:id for the same lead in flight; the
   two requests found the same row on arrival, and both have run their
   update. *)
BothUpdatesWritten ==
    /\ \A p \in Procs :
         /\ proc[p].route = "PUT /api/leads/:id"
         /\ proc[p].pc = "leads:refetch"
    /\ proc["c1"].id = proc["c2"].id
    /\ proc["c1"].pre.leads = proc["c2"].pre.leads

(* The row one PUT alone stores over the row both found: the attributes its
   body names, over that row. *)
StoredAlone(p) ==
    Pick(proc[p].body, LeadAttributes) @@ proc[p].pre.leads[proc[p].row.id]

(* C24: when two PUT /leads/:id requests on one lead interleave, the stored
   lead equals what one of them alone would have stored; it never combines
   fields of one body with fields of the other. *)
C24_LastWriteWins ==
    BothUpdatesWritten =>
        \E p \in Procs : leads[proc[p].row.id] = StoredAlone(p)

(* C24 fails: after the updates of Deal A (title, stage) and Deal B (title,
   value) the stored lead has the stage of A and the title and value of B. *)
C24_FieldsOfBoth ==
    /\ BothUpdatesWritten
    /\ proc["c1"].body = [title |-> "Deal A", customerId |-> 1,
                          stage |-> "proposal"]
    /\ proc["c2"].body = [title |-> "Deal B", customerId |-> 1, value |-> 100]
    /\ leads[1].stage = "proposal"
    /\ leads[1].title = "Deal B"
    /\ leads[1].value = 100
    /\ \A p \in Procs : leads[1] # StoredAlone(p)

(* Bodies that name the same attributes do not mix: the stored lead is the
   one of the update that ran last. *)
C24_SameAttributesLastWins ==
    (/\ BothUpdatesWritten
     /\ DOMAIN proc["c1"].body = DOMAIN proc["c2"].body)
    => \E p \in Procs : leads[proc[p].row.id] = StoredAlone(p)

----------------------------------------------------------------------------
(* The exchange carried a token the server signed, unexpired on arrival,
   for a user stored on arrival. *)
TokenOfStoredUser ==
    /\ Answered
    /\ CarriesIssuedToken
    /\ last.at < last.header[2].exp
    /\ last.header[2].userId \in DOMAIN last.pre.users

(* The role stored for the bearer of the token when the request arrived *)
StoredRole == last.pre.users[last.header[2].userId].role

(* C25: authorization is decided from the role stored for the user when the
   request arrives, not from the role in the token: on an admin-only route
   a token whose user is stored with role user is answered 403 before the
   handler, and a token whose user is stored with role admin is admitted,
   whatever role the token was issued with. *)
C25_StoredRoleGates ==
    (TokenOfStoredUser /\ AdminOnly(last.route)) =>
        /\ StoredRole # "admin" => Refused403
        /\ StoredRole = "admin" => (last.ran /\ last.status \notin {401, 403})

(* C25 happens: a token issued to an administrator who has since been made
   a user by PUT /api/users/:id is refused on GET /api/users. *)
C25_DemotedRefused ==
    /\ TokenOfStoredUser
    /\ last.route = "GET /api/users"
    /\ last.header[2].role = "admin"
    /\ StoredRole = "user"
    /\ Refused403

(* C25 happens: a token issued to a user who has since been made an
   administrator is admitted on GET /api/users. *)
C25_PromotedAdmitted ==
    /\ TokenOfStoredUser
    /\ last.route = "GET /api/users"
    /\ last.header[2].role = "user"
    /\ StoredRole = "admin"
    /\ last.status = 200
    /\ last.ran

----------------------------------------------------------------------------
SessionEnders == {"POST /api/auth/logout", "POST /api/auth/refresh"}

(* The exchange presented, on a protected route, a token that a client had
   seen answered 200 by the route ender before; the token was unexpired and
   its user stored when the request arrived. *)
PresentedAfter(ender) ==
    /\ Answered
    /\ IsProtected(last.route)
    /\ CarriesIssuedToken
    /\ [token |-> TokenOf(last.header), route |-> ender] \in ended
    /\ last.at < last.header[2].exp
    /\ last.header[2].userId \in DOMAIN last.pre.users

(* C26: POST /api/auth/logout and POST /api/auth/refresh change no table,
   and the token presented to them is accepted afterwards on every
   protected route (never 401; the handler runs unless the role gate
   answers 403) until it expires or its user is deleted. *)
C26_EndedTokenStillAccepted ==
    /\ (Answered /\ last.route \in SessionEnders) =>
          (~last.wrote /\ TablesAsBefore)
    /\ \A ender \in SessionEnders :
          PresentedAfter(ender) =>
              /\ last.status # 401
              /\ last.status # 403 => last.ran

(* C26 happens: a token is accepted on GET /api/auth/me after its logout. *)
C26_AcceptedAfterLogout ==
    /\ PresentedAfter("POST /api/auth/logout")
    /\ last.route = "GET /api/auth/me"
    /\ last.status = 200
    /\ last.ran

(* C26 happens: after a refresh issued a token with a later expiry, which
   the client holds, the token that was presented to the refresh is still
   accepted on GET /api/users. *)
C26_AcceptedAfterRefresh ==
    /\ PresentedAfter("POST /api/auth/refresh")
    /\ last.route = "GET /api/users"
    /\ tokens["c1"].userId = last.header[2].userId
    /\ tokens["c1"].exp > last.header[2].exp
    /\ last.status = 200
    /\ last.ran

----------------------------------------------------------------------------
Admins == {i \in DOMAIN users : users[i].role = "admin"}

(* C27: while requests delete users (each passing authentication, the
   self-delete guard, the lookup and the removal as separate steps), at
   least one user with role admin remains stored. *)
C27_AnAdminRemains == Admins # {}

(* C27 fails: the seeded administrator and an administrator who registered
   delete each other: both requests pass the self-delete guard and the
   lookup before either removal, and no administrator is left. *)
C27_AdminsDeletedEachOther ==
    /\ Admins = {}
    /\ {1, 3} \subseteq deleted
    /\ Answered
    /\ last.route = "DELETE /api/users/:id"
    /\ last.status = 200
    /\ last.user.role = "admin"
    /\ last.user.id \in deleted

----------------------------------------------------------------------------
(* The exchange is a dashboard answered 200. *)
DashboardReported ==
    /\ Answered
    /\ last.route \in {"GET /api/reports/dashboard",
                       "GET /api/reports/dashboard-stats"}
    /\ last.status = 200

PipelineSum ==
    last.data.pipeline["lead"] + last.data.pipeline["qualified"]
    + last.data.pipeline["proposal"] + last.data.pipeline["closed"]

(* C28: in every dashboard response the four pipeline stage counts add up
   to leads.total, and tasks.completed + tasks.pending <= tasks.total, also
   when leads and tasks change between the queries of the dashboard. *)
C28_DashboardConsistent ==
    DashboardReported =>
        /\ PipelineSum = last.data.leads.total
        /\ last.data.tasks.completed + last.data.tasks.pending
             <= last.data.tasks.total

(* C28 fails: a lead deleted after the lead statistics were read and before
   the pipeline statistics: the dashboard reports two leads and a pipeline
   of one. *)
C28_PipelineShortOfTotal ==
    /\ DashboardReported
    /\ last.data.leads.total = 2
    /\ PipelineSum = 1
    /\ DOMAIN leads = {2}
    /\ DOMAIN last.pre.leads = {1, 2}

(* The task counts come from one statement: they are consistent in every
   response. *)
C28_TaskCountsConsistent ==
    DashboardReported =>
        last.data.tasks.completed + last.data.tasks.pending
          <= last.data.tasks.total

----------------------------------------------------------------------------
(* The exchange is an update of a lead, or of its stage, answered 200. *)
LeadPutAnswered(route) ==
    /\ Answered
    /\ last.route = route
    /\ last.status = 200

(* C29: every 200 of PUT /leads/:id/stage carries a refreshed lead that is
   not null and whose stage is the response's newStage, and every 200 of
   PUT /leads/:id carries a lead that is not null, whatever stage updates,
   updates and deletes of the lead run at the same time. *)
C29_RefreshedLeadReturned ==
    /\ LeadPutAnswered("PUT /api/leads/:id/stage") =>
          /\ last.data.lead # NoValue
          /\ last.data.lead.values.stage = last.data.newStage
    /\ LeadPutAnswered("PUT /api/leads/:id") => last.data.lead # NoValue

(* C29 fails: the lead is deleted by the other client after the stage was
   updated and before the lead is read again: 200 with lead null. *)
C29_NullLeadIn200 ==
    /\ LeadPutAnswered("PUT /api/leads/:id/stage")
    /\ last.data.lead = NoValue
    /\ last.data.newStage = "closed"
    /\ 1 \notin DOMAIN leads

(* C29 fails: the other client's stage update lands between this one's
   update and its second read: the refreshed lead has another stage than
   newStage. *)
C29_OtherStageIn200 ==
    /\ LeadPutAnswered("PUT /api/leads/:id/stage")
    /\ last.data.lead # NoValue
    /\ last.data.newStage = "closed"
    /\ last.data.lead.values.stage = "lead"

----------------------------------------------------------------------------
(* C30: the set of users with role admin grows only by a step of a request
   whose principal is an administrator; no request without a principal
   (in particular POST /api/auth/register, with any body) adds a user with
   role admin. *)
C30_AdminsGrowOnlyByAdmins ==
    [][Admins' \ Admins # {} =>
          \E p \in Procs :
             /\ proc[p].pc # "idle"
             /\ proc'[p].pc = "idle"
             /\ proc[p].user.role = "admin"]_vars

(* C30 fails: a registration without a token, with role admin in its body,
   is answered 201: the user is stored with role admin, and the token of
   the response passes the gate of the admin-only routes. *)
C30_RegisteredAsAdmin ==
    /\ Answered
    /\ last.route = "POST /api/auth/register"
    /\ last.header = <<>>
    /\ last.user = NoUser
    /\ last.status = 201
    /\ Has(last.body, "role")
    /\ last.body.role = "admin"
    /\ last.data.user.id \notin DOMAIN last.pre.users
    /\ users[last.data.user.id].role = "admin"
    /\ Middleware("GET /api/users", <<"Bearer", last.data.token>>, NoBody).ok

====
